---- MODULE Spec2Model ----
(***************************************************************************)
(* State-machine model of the Yoto controller clients:                     *)
(*   YotoClient       src/yotobackend/client.py   (variables yc_...)       *)
(*   YotoAPIClient    src/core/api_client.py      (variables api_...)      *)
(*   YotoCoordinator  src/core/yoto_coordinator.py (variables co_...)      *)
(* Python values are modelled as strings; None is the value None below,    *)
(* a key that a JSON object does not carry has the value Absent.           *)
(***************************************************************************)
EXTENDS Integers, Sequences, FiniteSets, TLC

None == "<None>"
Absent == "<absent>"

\* The one device of the account and the card of the scenarios.
Dev == "dev1"
CardA == "abc123"

(***************************************************************************)
(* YotoClient: state                                                       *)
(***************************************************************************)
VARIABLES
    yc_token_data,      \* None or the token of the last login
    yc_devices,         \* set of device ids loaded by _load_devices
    yc_device_id,       \* selected device id or None
    yc_mqtt_client,     \* None or "client"
    yc_mqtt_connected,  \* the _mqtt_connected flag
    yc_refresh_task,    \* None, "running", "cancelled"
    yc_state_task,      \* None, "running", "cancelled"
    yc_session_closed,  \* requests.Session closed
    yc_callbacks,       \* sequence of subscribed callbacks
    yc_device_state,    \* function device id -> DeviceState
    yc_resp,            \* response of the status poll being awaited, or None
    yc_invoked,         \* callbacks invoked by the last applied poll
    yc_events,          \* MQTT payloads handled so far (history)
    yc_op,              \* name of the last operation (history)
    yc_raised,          \* exception raised by the last operation, or None
    yc_library,         \* ids of the cards get_library stored
    yc_published,       \* commands the last play() published
    yc_now,             \* time.monotonic(), in seconds
    yc_token_expires_at, \* self.token_expires_at
    yc_refresh_due,     \* when the sleep of _refresh_loop ends
    yc_sent,            \* "none", or whether the token of the last status
                        \* request was "valid" or "expired" when it was sent
    yc_art_cache,       \* the files of the directory CACHE: [card, ext]
    yc_art_path,        \* art_path of every card of self.library, as [card, ext]
    yc_library_call     \* the last get_library call (history)

ycVars == <<yc_art_cache, yc_art_path, yc_library_call,
            yc_now, yc_token_expires_at, yc_refresh_due, yc_sent,
            yc_library, yc_published, yc_token_data, yc_devices, yc_device_id, yc_mqtt_client,
            yc_mqtt_connected, yc_refresh_task, yc_state_task,
            yc_session_closed, yc_callbacks, yc_device_state, yc_resp,
            yc_invoked, yc_events, yc_op, yc_raised>>


\* DeviceState() of yotobackend/client.py
DeviceState ==
    [playback_status |-> "stopped", card_id |-> None, volume |-> "8",
     battery |-> None, wifi_strength |-> None, temperature |-> None,
     ambient_light |-> None]

Fields == {"playback_status", "card_id", "volume", "battery",
           "wifi_strength", "temperature", "ambient_light"}

\* The JSON key a status payload uses for each DeviceState field.
KeyOf(f) ==
    CASE f = "playback_status" -> "playbackStatus"
      [] f = "card_id"         -> "cardId"
      [] f = "volume"          -> "userVolumePercentage"
      [] f = "battery"         -> "batteryLevelPercentage"
      [] f = "wifi_strength"   -> "wifiStrength"
      [] f = "temperature"     -> "temperatureCelcius"
      [] f = "ambient_light"   -> "ambientLightSensorReading"

\* Status/event payloads: each key is Absent or carries a value.
Payloads ==
    [playbackStatus : {Absent, "playing", "paused"},
     cardId : {Absent, CardA, "none"},
     userVolumePercentage : {Absent, "5"},
     batteryLevelPercentage : {Absent, "50"},
     wifiStrength : {Absent, "-60"},
     temperatureCelcius : {Absent, "21", "warm"},
     ambientLightSensorReading : {Absent, "3"}]

EmptyPayload ==
    [playbackStatus |-> Absent, cardId |-> Absent,
     userVolumePercentage |-> Absent, batteryLevelPercentage |-> Absent,
     wifiStrength |-> Absent, temperatureCelcius |-> Absent,
     ambientLightSensorReading |-> Absent]

\* The two event messages of the scenario.
MsgPlaying == [EmptyPayload EXCEPT !.playbackStatus = "playing", !.cardId = CardA]
MsgPaused == [EmptyPayload EXCEPT !.playbackStatus = "paused"]

\* dict.get(key, default)
Get(data, key, default) == IF data[key] = Absent THEN default ELSE data[key]

\* Python truthiness of an optional string
Truthy(v) == v \notin {None, Absent, ""}

\* float(v): the strings that parse as a float, and what they parse to
Floatable == {"21"}
Float(v) == IF v = "21" THEN "21.0" ELSE v

\* No status poll is being awaited.
NoResp == [caller |-> None, status |-> None, data |-> EmptyPayload]

\* self.device_state.setdefault(device_id, DeviceState()) read back
StateOf(ds, d) == IF d \in DOMAIN ds THEN ds[d] ELSE DeviceState

\* Bound of the model: the number of callbacks a client holds.
MaxCallbacks == 2

\* A callback either returns normally or raises an Exception.
Callbacks == {"cb_ok", "cb_raises"}
Raises(cb) == cb = "cb_raises"

\* Mutant of InvokeAll: the loop has no try/except, the first callback that
\* raises ends it and its exception leaves the loop.
InvokeAll_nocatch(cbs) ==
    LET raising == {i \in 1..Len(cbs) : Raises(cbs[i])}
        last == IF raising = {} THEN Len(cbs)
                ELSE CHOOSE i \in raising : \A j \in raising : i <= j
    IN [invoked |-> SubSeq(cbs, 1, last),
        raised |-> IF raising = {} THEN None ELSE "Exception"]

\* the for/try/except loop over list(self._callbacks): every callback is
\* invoked in order, an Exception of one is logged and the loop goes on.
RECURSIVE InvokeAll(_)
InvokeAll(cbs) ==
    IF cbs = <<>> THEN [invoked |-> <<>>, raised |-> None]
    ELSE LET rest == InvokeAll(Tail(cbs))
         IN [invoked |-> <<Head(cbs)>> \o rest.invoked, raised |-> rest.raised]

\* the field assignments of refresh_device_state
ApplyStatus(state, data) ==
    LET card == Get(data, "cardId", None)
        temp == Get(data, "temperatureCelcius", None)
    IN [playback_status |-> Get(data, "playbackStatus", state.playback_status),
        card_id |-> IF card = "none" THEN None
                    ELSE IF Truthy(card) THEN card ELSE state.card_id,
        volume |-> Get(data, "userVolumePercentage", state.volume),
        battery |-> Get(data, "batteryLevelPercentage", None),
        wifi_strength |-> Get(data, "wifiStrength", None),
        temperature |-> IF temp # None /\ temp \in Floatable
                        THEN Float(temp) ELSE state.temperature,
        ambient_light |-> Get(data, "ambientLightSensorReading", None)]

YcInit ==
    /\ yc_token_data = None
    /\ yc_devices = {}
    /\ yc_device_id = None
    /\ yc_mqtt_client = None
    /\ yc_mqtt_connected = FALSE
    /\ yc_refresh_task = None
    /\ yc_state_task = None
    /\ yc_session_closed = FALSE
    /\ yc_callbacks = <<>>
    /\ yc_device_state = <<>>
    /\ yc_resp = NoResp
    /\ yc_invoked = <<>>
    /\ yc_events = <<>>
    /\ yc_op = None
    /\ yc_raised = None
    /\ yc_library = {}
    /\ yc_published = <<>>
    /\ yc_now = 0
    /\ yc_token_expires_at = 0
    /\ yc_refresh_due = 0
    /\ yc_sent = "none"
    /\ yc_art_cache = {}
    /\ yc_art_path = <<>>
    /\ yc_library_call = [listed |-> FALSE, art |-> "none", returned |-> {}]

\* start(): _authenticate, _load_devices, _select_device, _connect_mqtt, then
\* the two tasks; each step may raise and leaves what the earlier steps set.
StartOutcomes == {"ok", "login_failed", "devices_failed", "no_devices", "mqtt_failed"}

\* _refresh_loop sleeps RefreshSleep seconds between two checks, the check of
\* _refresh_token_if_needed refreshes within ExpiryMargin seconds of the
\* expiry, and _state_loop sleeps TickSeconds seconds between two polls.
RefreshSleep == 60
ExpiryMargin == 60
TickSeconds == 30
MaxTime == 180
\* an expires_in no run of MaxTime seconds comes near
LongLived == MaxTime + ExpiryMargin + TickSeconds

\* start() where the login response carries expires_in
YotoClient_login(outcome, expires_in) ==
    /\ yc_op' = "start"
    /\ yc_refresh_task = None /\ yc_state_task = None /\ yc_mqtt_client = None
    /\ yc_token_data = None
    /\ yc_token_data' = IF outcome = "login_failed" THEN None ELSE "token"
    /\ yc_token_expires_at' = IF outcome = "login_failed" THEN yc_token_expires_at
                                                          ELSE yc_now + expires_in
    /\ yc_devices' = IF outcome \in {"ok", "mqtt_failed"} THEN {Dev} ELSE {}
    /\ yc_device_id' = IF outcome \in {"ok", "mqtt_failed"} THEN Dev ELSE None
    /\ yc_mqtt_client' = IF outcome \in {"ok", "mqtt_failed"} THEN "client" ELSE None
    /\ yc_mqtt_connected' = (outcome = "ok")
    /\ yc_refresh_task' = IF outcome = "ok" THEN "running" ELSE None
    /\ yc_state_task' = IF outcome = "ok" THEN "running" ELSE None
    /\ yc_refresh_due' = IF outcome = "ok" THEN yc_now + RefreshSleep ELSE yc_refresh_due
    /\ yc_raised' = IF outcome = "ok" THEN None ELSE "RuntimeError"
    /\ UNCHANGED <<yc_art_cache, yc_art_path, yc_library_call,
                   yc_now, yc_sent,
                   yc_library, yc_published,
                   yc_session_closed, yc_callbacks, yc_device_state, yc_resp,
                   yc_invoked, yc_events>>

YotoClient_start(outcome) == YotoClient_login(outcome, LongLived)

\* subscribe(callback)
YotoClient_subscribe(cb) ==
    /\ yc_op' = "subscribe"
    /\ Len(yc_callbacks) < MaxCallbacks
    /\ yc_callbacks' = Append(yc_callbacks, cb)
    /\ yc_raised' = None
    /\ UNCHANGED <<yc_art_cache, yc_art_path, yc_library_call,
                   yc_now, yc_token_expires_at, yc_refresh_due, yc_sent,
                   yc_library, yc_published,
                   yc_token_data, yc_devices, yc_device_id, yc_mqtt_client,
                   yc_mqtt_connected, yc_refresh_task, yc_state_task,
                   yc_session_closed, yc_device_state, yc_resp, yc_invoked,
                   yc_events>>

\* refresh_device_state() up to its await of session.get: _ensure_device and
\* _get_auth_headers raise when nothing is selected; otherwise the response
\* resp arrives. caller is "user" or "loop" (the _state_loop task).
\* _get_auth_headers hands out the stored token whenever one is present; the
\* request carries it whatever the clock says.
TokenAt(now, expires_at) == IF now > expires_at THEN "expired" ELSE "valid"

YotoClient_refresh_device_state_get(caller, resp) ==
    /\ yc_op' = "refresh_device_state"
    /\ yc_resp = NoResp
    /\ caller = "loop" => yc_state_task = "running"
    /\ IF yc_device_id = None \/ yc_token_data = None
       THEN /\ yc_raised' = IF caller = "user"
                            THEN (IF yc_device_id = None THEN "RuntimeError" ELSE "ValueError")
                            ELSE yc_raised
            /\ yc_state_task' = IF caller = "loop" THEN "failed" ELSE yc_state_task
            /\ yc_resp' = NoResp
            /\ UNCHANGED yc_sent
       ELSE IF resp.status = "error"
       THEN /\ yc_raised' = IF caller = "user" THEN "ConnectionError" ELSE yc_raised
            /\ yc_state_task' = IF caller = "loop" THEN "failed" ELSE yc_state_task
            /\ yc_resp' = NoResp
            /\ yc_sent' = TokenAt(yc_now, yc_token_expires_at)
       ELSE /\ yc_resp' = [caller |-> caller, status |-> resp.status, data |-> resp.data]
            /\ yc_sent' = TokenAt(yc_now, yc_token_expires_at)
            /\ yc_raised' = IF caller = "user" THEN None ELSE yc_raised
            /\ UNCHANGED yc_state_task
    /\ UNCHANGED <<yc_art_cache, yc_art_path, yc_library_call,
                   yc_now, yc_token_expires_at, yc_refresh_due,
                   yc_library, yc_published,
                   yc_token_data, yc_devices, yc_device_id, yc_mqtt_client,
                   yc_mqtt_connected, yc_refresh_task, yc_session_closed,
                   yc_callbacks, yc_device_state, yc_invoked, yc_events>>

\* refresh_device_state() after the await: a non-200 status is logged and
\* dropped, a 200 body is applied to the device's state and every callback
\* is invoked with it.
YotoClient_refresh_device_state_apply ==
    /\ yc_op' = "refresh_device_state"
    /\ yc_resp # NoResp
    /\ yc_resp' = NoResp
    /\ IF yc_resp.status # "200"
       THEN UNCHANGED <<yc_device_state, yc_invoked, yc_raised>>
       ELSE /\ yc_device_state' =
                 [d \in DOMAIN yc_device_state \cup {yc_device_id} |->
                    IF d = yc_device_id
                    THEN ApplyStatus(StateOf(yc_device_state, d), yc_resp.data)
                    ELSE yc_device_state[d]]
            /\ yc_invoked' = InvokeAll(yc_callbacks).invoked
            /\ yc_raised' = InvokeAll(yc_callbacks).raised
    /\ UNCHANGED <<yc_art_cache, yc_art_path, yc_library_call,
                   yc_now, yc_token_expires_at, yc_refresh_due, yc_sent,
                   yc_library, yc_published,
                   yc_token_data, yc_devices, yc_device_id, yc_mqtt_client,
                   yc_mqtt_connected, yc_refresh_task, yc_state_task,
                   yc_session_closed, yc_callbacks, yc_events>>

\* Bound of the model: the number of MQTT messages recorded in yc_events.
MaxEvents == 2

\* An MQTT message: an empty payload, a payload that is not JSON, or a JSON
\* object.
Messages ==
    [raw : {"empty", "invalid"}, data : {EmptyPayload}]
    \cup [raw : {"json"}, data : {MsgPlaying, MsgPaused}]

\* _on_mqtt_message: decodes the payload and logs it; the JSON body is only
\* read for the two log lines. No attribute of the client is assigned.
YotoClient_on_mqtt_message(message) ==
    /\ yc_op' = "on_mqtt_message"
    /\ yc_mqtt_client # None
    /\ Len(yc_events) < MaxEvents
    /\ yc_events' = Append(yc_events, message)
    /\ UNCHANGED <<yc_art_cache, yc_art_path, yc_library_call,
                   yc_now, yc_token_expires_at, yc_refresh_due, yc_sent,
                   yc_library, yc_published,
                   yc_token_data, yc_devices, yc_device_id, yc_mqtt_client,
                   yc_mqtt_connected, yc_refresh_task, yc_state_task,
                   yc_session_closed, yc_callbacks, yc_device_state, yc_resp,
                   yc_invoked, yc_raised>>

\* Mutant of AwaitAborts: stop() awaits a task it does not hold.
AwaitAborts_unguarded(task) == task # "failed"

\* What awaiting a task after cancel() does to stop(): a task that was
\* running or is already cancelled raises CancelledError, which is not an
\* Exception and passes contextlib.suppress(Exception); the exception of a
\* task that had failed is suppressed.
AwaitAborts(task) == task \in {"running", "cancelled"}

\* stop(): cancel and await the two tasks, _disconnect_mqtt, session.close()
YotoClient_stop ==
    LET abort1 == AwaitAborts(yc_refresh_task)
        abort2 == ~abort1 /\ AwaitAborts(yc_state_task)
        done == ~abort1 /\ ~abort2
    IN /\ yc_op' = "stop"
       /\ yc_refresh_task' = IF yc_refresh_task = "running" THEN "cancelled"
                             ELSE yc_refresh_task
       /\ yc_state_task' = IF ~abort1 /\ yc_state_task = "running" THEN "cancelled"
                           ELSE yc_state_task
       /\ yc_resp' = IF yc_resp # NoResp /\ yc_resp.caller = "loop"
                        /\ yc_state_task' = "cancelled"
                     THEN NoResp ELSE yc_resp
       /\ yc_mqtt_connected' = IF done /\ yc_mqtt_client # None THEN FALSE
                               ELSE yc_mqtt_connected
       /\ yc_mqtt_client' = IF done THEN None ELSE yc_mqtt_client
       /\ yc_session_closed' = (done \/ yc_session_closed)
       /\ yc_raised' = IF done THEN None ELSE "CancelledError"
       /\ UNCHANGED <<yc_art_cache, yc_art_path, yc_library_call,
                      yc_now, yc_token_expires_at, yc_refresh_due, yc_sent,
                      yc_library, yc_published,
                      yc_token_data, yc_devices, yc_device_id, yc_callbacks,
                      yc_device_state, yc_invoked, yc_events>>

\* one iteration of _refresh_loop: _refresh_token_if_needed posts the refresh
\* token; a 200 replaces the token, another status is logged, an exception of
\* the request ends the task.
YotoClient_refresh_loop(outcome) ==
    /\ yc_op' = "refresh_loop"
    /\ yc_refresh_task = "running"
    /\ yc_token_data # None
    /\ yc_token_data' = IF outcome = "refreshed" THEN "token_r" ELSE yc_token_data
    /\ yc_token_expires_at' = IF outcome = "refreshed" THEN yc_now + LongLived
                                                       ELSE yc_token_expires_at
    /\ yc_refresh_task' = IF outcome = "error" THEN "failed" ELSE yc_refresh_task
    /\ UNCHANGED <<yc_art_cache, yc_art_path, yc_library_call,
                   yc_now, yc_refresh_due, yc_sent,
                   yc_library, yc_published,
                   yc_devices, yc_device_id, yc_mqtt_client, yc_mqtt_connected,
                   yc_state_task, yc_session_closed, yc_callbacks,
                   yc_device_state, yc_resp, yc_invoked, yc_events, yc_raised>>

\* One wake-up of _refresh_loop on the clock: the sleep has ended, and
\* _refresh_token_if_needed posts the refresh only within ExpiryMargin of the
\* expiry. A 200 answer stores the new token and expiry, any other answer is
\* logged and leaves both, and a raising post ends the task.
RefreshOutcomes == {"refreshed", "kept", "error"}

YotoClient_refresh_wakeup(outcome, expires_in) ==
    /\ yc_op' = "refresh_wakeup"
    /\ yc_refresh_task = "running"
    /\ yc_token_data # None
    /\ yc_now >= yc_refresh_due
    /\ yc_refresh_due' = yc_now + RefreshSleep
    /\ IF yc_now > yc_token_expires_at - ExpiryMargin
       THEN /\ yc_token_data' = IF outcome = "refreshed" THEN "token_r" ELSE yc_token_data
            /\ yc_token_expires_at' = IF outcome = "refreshed" THEN yc_now + expires_in
                                                               ELSE yc_token_expires_at
            /\ yc_refresh_task' = IF outcome = "error" THEN "failed" ELSE yc_refresh_task
       ELSE UNCHANGED <<yc_token_data, yc_token_expires_at, yc_refresh_task>>
    /\ UNCHANGED <<yc_art_cache, yc_art_path, yc_library_call,
                   yc_now, yc_sent,
                   yc_library, yc_published,
                   yc_devices, yc_device_id, yc_mqtt_client, yc_mqtt_connected,
                   yc_state_task, yc_session_closed, yc_callbacks,
                   yc_device_state, yc_resp, yc_invoked, yc_events, yc_raised>>

\* TickSeconds pass. A running _refresh_loop wakes when its sleep ends, so the
\* clock does not run past a wake-up that is due.
Clock_tick ==
    /\ yc_op' = "tick"
    /\ yc_now + TickSeconds <= MaxTime
    /\ (yc_refresh_task = "running" /\ yc_token_data # None) => yc_now < yc_refresh_due
    /\ yc_now' = yc_now + TickSeconds
    /\ UNCHANGED <<yc_art_cache, yc_art_path, yc_library_call,
                   yc_token_expires_at, yc_refresh_due, yc_sent,
                   yc_library, yc_published,
                   yc_token_data, yc_devices, yc_device_id, yc_mqtt_client,
                   yc_mqtt_connected, yc_refresh_task, yc_state_task,
                   yc_session_closed, yc_callbacks, yc_device_state, yc_resp,
                   yc_invoked, yc_events, yc_raised>>

\* play(card_id): no chapter parameter; the payload names chapterKey "01"
\* and trackKey "01". _publish_device_command returns False when MQTT is
\* down or the publish raises, and play raises RuntimeError; no poll of the
\* status follows.
YotoClient_play(card_id, pub) ==
    /\ yc_op' = "play"
    /\ IF yc_device_id = None
       THEN yc_raised' = "RuntimeError" /\ yc_published' = <<>>
       ELSE IF card_id \notin yc_library
       THEN yc_raised' = "ValueError" /\ yc_published' = <<>>
       ELSE IF ~(yc_mqtt_client # None /\ yc_mqtt_connected)
               \/ yc_device_id \notin yc_devices
       THEN yc_raised' = "RuntimeError" /\ yc_published' = <<>>
       ELSE /\ yc_published' = <<[cmd |-> "card-play", device |-> yc_device_id,
                                  card |-> card_id, chapterKey |-> <<"0", "1">>,
                                  trackKey |-> <<"0", "1">>]>>
            /\ yc_raised' = IF pub = "ok" THEN None ELSE "RuntimeError"
    /\ UNCHANGED <<yc_art_cache, yc_art_path, yc_library_call,
                   yc_now, yc_token_expires_at, yc_refresh_due, yc_sent,
                   yc_library, yc_token_data, yc_devices, yc_device_id,
                   yc_mqtt_client, yc_mqtt_connected, yc_refresh_task,
                   yc_state_task, yc_session_closed, yc_callbacks,
                   yc_device_state, yc_resp, yc_invoked, yc_events>>

YcVerbs == {"pause", "resume", "stop_playback"}

\* The command name pause / resume / stop_playback publish
YcCommand(verb) ==
    CASE verb = "pause" -> "card-pause"
      [] verb = "resume" -> "card-resume"
      [] verb = "stop_playback" -> "card-stop"

\* pause() / resume() / stop_playback(): _ensure_device raises when no
\* device is selected; _publish_device_command returns False when MQTT is
\* down, the device is unknown or the publish raises, and the command then
\* raises RuntimeError.
YotoClient_command(verb, pub) ==
    /\ yc_op' = verb
    /\ IF yc_device_id = None
       THEN yc_raised' = "RuntimeError" /\ yc_published' = <<>>
       ELSE IF ~(yc_mqtt_client # None /\ yc_mqtt_connected)
               \/ yc_device_id \notin yc_devices
       THEN yc_raised' = "RuntimeError" /\ yc_published' = <<>>
       ELSE /\ yc_published' = <<[cmd |-> YcCommand(verb), device |-> yc_device_id,
                                  card |-> None, chapterKey |-> <<>>,
                                  trackKey |-> <<>>]>>
            /\ yc_raised' = IF pub = "ok" THEN None ELSE "RuntimeError"
    /\ UNCHANGED <<yc_art_cache, yc_art_path, yc_library_call,
                   yc_now, yc_token_expires_at, yc_refresh_due, yc_sent,
                   yc_library, yc_token_data, yc_devices, yc_device_id,
                   yc_mqtt_client, yc_mqtt_connected, yc_refresh_task,
                   yc_state_task, yc_session_closed, yc_callbacks,
                   yc_device_state, yc_resp, yc_invoked, yc_events>>

\* The responses of the status endpoint over a set of bodies.
Responses(bodies) ==
    [status : {"200"}, data : bodies]
    \cup [status : {"500", "error"}, data : {EmptyPayload}]


(***************************************************************************)
(* Keys: a chapter/track key is a sequence of characters; a missing key    *)
(* (None) and the empty string are both the empty sequence, the code       *)
(* reads either through "not key" / "a or b" only.                         *)
(***************************************************************************)
DecimalDigits == <<"0", "1", "2", "3", "4", "5", "6", "7", "8", "9">>

\* str.isdigit(): the decimal digits and digits such as a superscript two,
\* which int() rejects.
IsDigit(ch) == ch \in {DecimalDigits[i] : i \in 1..10} \cup {"sup2"}

DigitValue(ch) == (CHOOSE i \in 1..10 : DecimalDigits[i] = ch) - 1

RECURSIVE IntOf(_)
IntOf(digits) ==
    IF digits = <<>> THEN 0
    ELSE 10 * IntOf(SubSeq(digits, 1, Len(digits) - 1))
         + DigitValue(digits[Len(digits)])

\* a parser that reads the first digit only
ParseKey_first_digit(key) ==
    LET digits == SelectSeq(key, IsDigit)
    IN IF digits = <<>> \/ digits[1] = "sup2" THEN 1
       ELSE DigitValue(digits[1])

\* YotoAPIClient._parse_key
ParseKey(key) ==
    LET digits == SelectSeq(key, IsDigit)
    IN IF key = <<>> THEN 1
       ELSE IF digits = <<>> THEN 1
       ELSE IF \E i \in 1..Len(digits) : digits[i] = "sup2" THEN 1
       ELSE IntOf(digits)

\* str(n) for 0 <= n <= 99
Str(n) == IF n < 10 THEN <<DecimalDigits[n + 1]>>
          ELSE <<DecimalDigits[(n \div 10) + 1], DecimalDigits[(n % 10) + 1]>>

\* Mutant of ZFill2: the text is not padded.
ZFill2_unpadded(str) == str

\* str.zfill(2)
ZFill2(str) ==
    IF Len(str) >= 2 THEN str
    ELSE IF Len(str) = 0 THEN <<"0", "0">>
    ELSE IF str[1] \in {"+", "-"} THEN <<str[1], "0">>
    ELSE <<"0", str[1]>>

\* Bound of the model: the longest chapter list of a card.
MaxChapters == 3

\* The chapter keys of a card with n chapters: "01", "02", ...
ChapterKeys(n) == [i \in 1..n |-> ZFill2(Str(i))]

(***************************************************************************)
(* YotoAPIClient: state. mgr_... is the state of the yoto_api manager the  *)
(* client holds (players, library, MQTT session), as the client reads it.  *)
(***************************************************************************)
VARIABLES
    env_device_id,        \* os.getenv("YOTO_DEVICE_ID"), None when unset
    api_manager,          \* None or "manager"
    mgr_players,          \* manager.players: device id -> player
    mgr_library,          \* manager.library: card id -> [title, chapters]
    mgr_connected,        \* manager.mqtt_client.client.is_connected()
    api_state,            \* playback_status, active_card_id, titles, position
    api_device_state,     \* self.device_state
    api_state_callbacks,  \* self._state_callbacks
    api_invoked,          \* callbacks invoked by the last notification
    api_published,        \* commands the last operation handed to the manager
    api_polls,            \* update_players_status calls of the last command
    api_connects,         \* connect_to_events calls so far, capped
    api_failed,           \* consecutive failed connect_to_events calls, capped
    api_library,          \* self.library: card id -> Card
    api_op,               \* the last operation: name, arguments, reconnect (history)
    api_raised            \* exception raised by the last operation, or None

apiVars == <<env_device_id, api_manager, mgr_players, mgr_library,
             mgr_connected, api_state, api_device_state, api_state_callbacks,
             api_invoked, api_published, api_polls, api_connects, api_failed,
             api_library, api_op, api_raised>>

\* A player object of the manager before any status was received.
Player ==
    [online |-> TRUE, card_id |-> None, chapter_key |-> <<>>,
     track_key |-> <<>>, playback_status |-> None, is_playing |-> FALSE,
     chapter_title |-> None, track_title |-> None, track_position |-> None,
     track_length |-> None, user_volume |-> None,
     battery_level_percentage |-> None, wifi_strength |-> None,
     temperature_celcius |-> None, ambient_light_sensor_reading |-> None]

\* a or b
Or(a, b) == IF Truthy(a) THEN a ELSE b

\* player.track_key or player.chapter_key
CurrentKey(player) ==
    IF player.track_key # <<>> THEN player.track_key ELSE player.chapter_key

\* YotoAPIClient.__init__: the mirrored fields
ApiState ==
    [playback_status |-> "stopped", active_card_id |-> None,
     current_card_title |-> None, current_chapter_title |-> None,
     current_track_title |-> None, track_position |-> "0",
     track_length |-> "0"]

\* core/data_models.py DeviceState with volume 0 as __init__ sets it
ApiDeviceState ==
    [playback_status |-> "stopped", card_id |-> None, volume |-> "0",
     battery |-> None, wifi_strength |-> None, temperature |-> None,
     ambient_light |-> None]

\* _resolve_device_id
ResolveDeviceId(env, manager, players) ==
    IF Truthy(env) THEN env
    ELSE IF manager # None /\ DOMAIN players # {} THEN CHOOSE d \in DOMAIN players : TRUE
    ELSE None

\* _get_card_title
GetCardTitle(library, mgrlib, card_id) ==
    IF card_id \in DOMAIN library THEN library[card_id].title
    ELSE IF card_id \in DOMAIN mgrlib THEN mgrlib[card_id].title
    ELSE card_id

\* The player _update_state_from_player reads, or None when it returns early.
TargetPlayer(env, manager, players) ==
    LET device_id == ResolveDeviceId(env, manager, players)
    IN IF manager = None \/ device_id = None \/ device_id \notin DOMAIN players
       THEN None ELSE device_id

\* _update_state_from_player: the mirrored fields out of a player
MirrorOf(player, library, mgrlib) ==
    [playback_status |-> Or(player.playback_status,
                            IF player.is_playing THEN "playing" ELSE "stopped"),
     active_card_id |-> player.card_id,
     current_card_title |-> IF Truthy(player.card_id)
                            THEN GetCardTitle(library, mgrlib, player.card_id)
                            ELSE None,
     current_chapter_title |-> player.chapter_title,
     current_track_title |-> player.track_title,
     track_position |-> Or(player.track_position, "0"),
     track_length |-> Or(player.track_length, "0")]

\* _update_state_from_player: the extended device state out of a player
DeviceStateOf(player, old) ==
    [playback_status |-> Or(player.playback_status,
                            IF player.is_playing THEN "playing" ELSE "stopped"),
     card_id |-> player.card_id,
     volume |-> Or(player.user_volume, old.volume),
     battery |-> player.battery_level_percentage,
     wifi_strength |-> player.wifi_strength,
     temperature |-> IF player.temperature_celcius # None
                        /\ player.temperature_celcius \in Floatable
                     THEN Float(player.temperature_celcius) ELSE old.temperature,
     ambient_light |-> player.ambient_light_sensor_reading]


\* The record of an operation: its name, the card and chapter it was given
\* and whether its _ensure_mqtt_connected called connect_to_events.
Op(name, card_id, chapter, reconnect) ==
    [name |-> name, card |-> card_id, chapter |-> chapter, reconnect |-> reconnect]

\* Bound of the model: connect_to_events calls counted.
MaxConnects == 3

Min(a, b) == IF a < b THEN a ELSE b

CardTitle(card_id) == IF card_id = CardA THEN "Card A" ELSE "Untitled"

ApiInit ==
    /\ env_device_id = None
    /\ api_manager = None
    /\ mgr_players = <<>>
    /\ mgr_library = <<>>
    /\ mgr_connected = FALSE
    /\ api_state = ApiState
    /\ api_device_state = ApiDeviceState
    /\ api_state_callbacks = <<>>
    /\ api_invoked = <<>>
    /\ api_published = <<>>
    /\ api_polls = 0
    /\ api_connects = 0
    /\ api_failed = 0
    /\ api_library = <<>>
    /\ api_op = Op(None, None, 0, FALSE)
    /\ api_raised = None

\* _update_state_from_player on the players the manager holds after the step
UpdateStateFromPlayer(manager, players, mgrlib) ==
    LET t == TargetPlayer(env_device_id, manager, players)
    IN IF t = None
       THEN UNCHANGED <<api_state, api_device_state>>
       ELSE /\ api_state' = MirrorOf(players[t], api_library, mgrlib)
            /\ api_device_state' = DeviceStateOf(players[t], api_device_state)

\* _notify_state_change
NotifyStateChange ==
    /\ api_invoked' = InvokeAll(api_state_callbacks).invoked
    /\ api_raised' = InvokeAll(api_state_callbacks).raised

\* _ensure_mqtt_connected: one connect_to_events call when the session is
\* down, its exception logged; conn is the outcome of that call.
EnsureMqttConnected(conn) ==
    IF api_manager = None \/ mgr_connected
    THEN UNCHANGED <<mgr_connected, api_connects, api_failed>>
    ELSE /\ mgr_connected' = (conn = "ok")
         /\ api_connects' = Min(api_connects + 1, MaxConnects)
         /\ api_failed' = IF conn = "ok" THEN 0 ELSE Min(api_failed + 1, MaxConnects)

\* authenticate(): YotoManager(...), initialize(), _update_devices(),
\* connect_to_events(), _update_state_from_player(); any exception is logged
\* and False returned. The manager attribute is assigned first.
AuthOutcomes == {"ok", "auth_error", "connect_error"}

YotoAPIClient_authenticate(outcome, player) ==
    /\ mgr_players = <<>> /\ ~mgr_connected
    /\ api_op' = Op("authenticate", None, 0, FALSE)
    /\ api_manager' = "manager"
    /\ mgr_players' = IF outcome = "auth_error" THEN <<>> ELSE [d \in {Dev} |-> player]
    /\ mgr_connected' = (outcome = "ok")
    /\ api_connects' = IF outcome = "auth_error" THEN api_connects
                       ELSE Min(api_connects + 1, MaxConnects)
    /\ api_failed' = IF outcome = "connect_error" THEN Min(api_failed + 1, MaxConnects)
                     ELSE IF outcome = "ok" THEN 0 ELSE api_failed
    /\ IF outcome = "ok" THEN UpdateStateFromPlayer("manager", mgr_players', mgr_library)
       ELSE UNCHANGED <<api_state, api_device_state>>
    /\ api_raised' = None
    /\ api_published' = <<>> /\ api_polls' = 0
    /\ UNCHANGED <<env_device_id, mgr_library, api_state_callbacks, api_invoked,
                   api_library>>

\* add_state_callback
YotoAPIClient_add_state_callback(cb) ==
    /\ Len(api_state_callbacks) < MaxCallbacks
    /\ api_state_callbacks' = Append(api_state_callbacks, cb)
    /\ api_op' = Op("add_state_callback", None, 0, FALSE)
    /\ UNCHANGED <<env_device_id, api_manager, mgr_players, mgr_library,
                   mgr_connected, api_state, api_device_state, api_invoked,
                   api_published, api_polls, api_connects, api_failed,
                   api_library, api_raised>>

\* The MQTT session of the manager drops.
Manager_disconnected ==
    /\ mgr_connected
    /\ mgr_connected' = FALSE
    /\ api_op' = Op("disconnected", None, 0, FALSE)
    /\ UNCHANGED <<env_device_id, api_manager, mgr_players, mgr_library,
                   api_state, api_device_state, api_state_callbacks,
                   api_invoked, api_published, api_polls, api_connects,
                   api_failed, api_library, api_raised>>

\* manager.update_card_detail(card_id): detail is -1 when the request fails,
\* else the number of chapters the cloud reports for the card.
UpdateCardDetail(mgrlib, card_id, detail) ==
    IF detail = -1 THEN mgrlib
    ELSE [c \in DOMAIN mgrlib \cup {card_id} |->
            IF c = card_id
            THEN [title |-> CardTitle(c), chapters |-> ChapterKeys(detail)]
            ELSE mgrlib[c]]

\* _ensure_card_detail(player)
EnsureCardDetail(mgrlib, player, detail) ==
    IF ~Truthy(player.card_id) \/ player.chapter_key = <<>> THEN mgrlib
    ELSE IF \/ player.card_id \notin DOMAIN mgrlib
            \/ mgrlib[player.card_id].chapters = <<>>
            \/ ~\E i \in 1..Len(mgrlib[player.card_id].chapters) :
                  mgrlib[player.card_id].chapters[i] = player.chapter_key
         THEN UpdateCardDetail(mgrlib, player.card_id, detail)
         ELSE mgrlib

\* _on_event: the manager has stored the event in the player and calls back.
YotoAPIClient_on_event(player, detail) ==
    /\ api_manager # None /\ mgr_connected /\ Dev \in DOMAIN mgr_players
    /\ api_op' = Op("on_event", None, 0, FALSE)
    /\ mgr_players' = [mgr_players EXCEPT ![Dev] = player]
    /\ mgr_library' = EnsureCardDetail(mgr_library, player, detail)
    /\ UpdateStateFromPlayer(api_manager, mgr_players', mgr_library')
    /\ NotifyStateChange
    /\ api_published' = <<>> /\ api_polls' = 0
    /\ UNCHANGED <<env_device_id, api_manager, mgr_connected,
                   api_state_callbacks, api_connects, api_failed, api_library>>

\* refresh_state(): check_and_refresh_token, update_players_status,
\* _update_state_from_player
YotoAPIClient_refresh_state(player) ==
    /\ api_op' = Op("refresh_state", None, 0, FALSE)
    /\ api_polls' = IF api_manager = None THEN 0 ELSE 1
    /\ mgr_players' = IF api_manager # None /\ Dev \in DOMAIN mgr_players
                      THEN [mgr_players EXCEPT ![Dev] = player] ELSE mgr_players
    /\ UpdateStateFromPlayer(api_manager, mgr_players', mgr_library)
    /\ api_published' = <<>>
    /\ api_raised' = None
    /\ UNCHANGED <<env_device_id, api_manager, mgr_library, mgr_connected,
                   api_state_callbacks, api_invoked, api_connects, api_failed,
                   api_library>>


\* get_card_chapters(card_id): the keys of the card's chapters, after a
\* detail request when the manager holds none; a failed request gives [].
GetCardChapters(mgrlib, card_id, detail) ==
    IF card_id \in DOMAIN mgrlib /\ mgrlib[card_id].chapters # <<>>
    THEN [library |-> mgrlib, chapters |-> mgrlib[card_id].chapters]
    ELSE LET lib == UpdateCardDetail(mgrlib, card_id, detail)
         IN [library |-> lib,
             chapters |-> IF card_id \in DOMAIN lib THEN lib[card_id].chapters
                          ELSE <<>>]

\* manager.play_card(device_id, card_id, ..., chapterKey, trackKey)
PlayCommand(device_id, card_id, chapterKey, trackKey) ==
    [cmd |-> "card-play", device |-> device_id, card |-> card_id,
     chapterKey |-> chapterKey, trackKey |-> trackKey]

\* The tail of play_card / next_track / previous_track once the command is
\* built: the publish (pub is "ok" or "raises"), and after a publish that
\* returned update_players_status(), _update_state_from_player() and
\* _notify_state_change(). guarded tells whether the publish is inside a
\* try/except Exception. api_published records the call and whether it
\* returned.
PublishAndPoll(command, pub, player, guarded) ==
    /\ api_published' = <<[call |-> command, returned |-> (pub = "ok")]>>
    /\ IF pub = "ok"
       THEN /\ api_polls' = 1
            /\ mgr_players' = IF Dev \in DOMAIN mgr_players
                              THEN [mgr_players EXCEPT ![Dev] = player]
                              ELSE mgr_players
            /\ UpdateStateFromPlayer(api_manager, mgr_players', mgr_library')
            /\ NotifyStateChange
       ELSE /\ api_polls' = 0
            /\ api_raised' = IF guarded THEN None ELSE "Exception"
            /\ UNCHANGED <<mgr_players, api_state, api_device_state, api_invoked>>

\* A command that returns before it builds anything to publish.
NoOp ==
    /\ api_published' = <<>>
    /\ api_polls' = 0
    /\ api_raised' = None
    /\ UNCHANGED <<mgr_players, api_state, api_device_state, api_invoked>>

\* play_card(card_id, chapter): chapter is an int, str(chapter) its text
YotoAPIClient_play_card(card_id, chapter, conn, pub, player) ==
    /\ api_op' = Op("play_card", card_id, chapter, api_manager # None /\ ~mgr_connected)
    /\ EnsureMqttConnected(conn)
    /\ UNCHANGED mgr_library
    /\ LET device_id == ResolveDeviceId(env_device_id, api_manager, mgr_players)
       IN IF api_manager = None \/ device_id = None THEN NoOp
          ELSE PublishAndPoll(
                   PlayCommand(device_id, card_id, ZFill2(Str(chapter)),
                               ParseKey(Str(chapter))),
                   pub, player, TRUE)
    /\ UNCHANGED <<env_device_id, api_manager, api_state_callbacks, api_library>>

\* Mutant of AtLastTrack: the comparison is off by one.
AtLastTrack_off_by_one(current, chapters) == current > Len(chapters)

\* "if current >= len(chapters)": already at the last track
AtLastTrack(current, chapters) == current >= Len(chapters)

\* "if current <= 1": already at the first track
AtFirstTrack(current) == current <= 1

\* chapters[next_index]["key"] if next_index < len(chapters)
\* else str(next_index + 1).zfill(2), with next_index = current
NextKey(chapters, current) ==
    IF current < Len(chapters) THEN chapters[current + 1]
    ELSE ZFill2(Str(current + 1))

\* next_track()
YotoAPIClient_next_track(conn, detail, pub, player) ==
    /\ api_op' = Op("next_track", None, 0, api_manager # None /\ ~mgr_connected)
    /\ EnsureMqttConnected(conn)
    /\ LET device_id == ResolveDeviceId(env_device_id, api_manager, mgr_players)
       IN IF \/ api_manager = None \/ device_id = None
             \/ device_id \notin DOMAIN mgr_players
             \/ ~Truthy(mgr_players[device_id].card_id)
          THEN NoOp /\ UNCHANGED mgr_library
          ELSE LET p == mgr_players[device_id]
                   got == GetCardChapters(mgr_library, p.card_id, detail)
                   chapters == got.chapters
                   current == ParseKey(CurrentKey(p))
               IN /\ mgr_library' = got.library
                  /\ IF chapters = <<>> \/ AtLastTrack(current, chapters) THEN NoOp
                     ELSE PublishAndPoll(
                              PlayCommand(device_id, p.card_id,
                                          NextKey(chapters, current),
                                          ParseKey(NextKey(chapters, current))),
                              pub, player, FALSE)
    /\ UNCHANGED <<env_device_id, api_manager, api_state_callbacks, api_library>>

\* previous_track(): chapters[current - 2] is read without a length check
YotoAPIClient_previous_track(conn, detail, pub, player) ==
    /\ api_op' = Op("previous_track", None, 0, api_manager # None /\ ~mgr_connected)
    /\ EnsureMqttConnected(conn)
    /\ LET device_id == ResolveDeviceId(env_device_id, api_manager, mgr_players)
       IN IF \/ api_manager = None \/ device_id = None
             \/ device_id \notin DOMAIN mgr_players
             \/ ~Truthy(mgr_players[device_id].card_id)
          THEN NoOp /\ UNCHANGED mgr_library
          ELSE LET p == mgr_players[device_id]
                   got == GetCardChapters(mgr_library, p.card_id, detail)
                   chapters == got.chapters
                   current == ParseKey(CurrentKey(p))
               IN /\ mgr_library' = got.library
                  /\ IF chapters = <<>> \/ AtFirstTrack(current) THEN NoOp
                     ELSE IF current - 1 > Len(chapters)
                     THEN /\ api_published' = <<>>
                          /\ api_polls' = 0
                          /\ api_raised' = "IndexError"
                          /\ UNCHANGED <<mgr_players, api_state, api_device_state,
                                         api_invoked>>
                     ELSE PublishAndPoll(
                              PlayCommand(device_id, p.card_id, chapters[current - 1],
                                          ParseKey(chapters[current - 1])),
                              pub, player, FALSE)
    /\ UNCHANGED <<env_device_id, api_manager, api_state_callbacks, api_library>>


\* manager.resume_player / pause_player / stop_player (device_id)
ManagerCommand(cmd, device_id) ==
    [cmd |-> cmd, device |-> device_id, card |-> None, chapterKey |-> <<>>,
     trackKey |-> 0]

\* The manager method each command of YotoAPIClient and YotoCoordinator calls
ManagerMethod(verb) ==
    CASE verb \in {"play", "resume"} -> "resume_player"
      [] verb = "pause" -> "pause_player"
      [] verb \in {"stop", "stop_player"} -> "stop_player"

\* play() only: "if not player.online" / "if not player.card_id"
PlayRefused(verb, player) ==
    verb = "play" /\ (~player.online \/ ~Truthy(player.card_id))

ApiVerbs == {"play", "pause", "resume", "stop"}

\* a command that also writes the status it asked for into the mirror
CommandAfterEnsure_optimistic(verb, pub) ==
    LET device_id == ResolveDeviceId(env_device_id, api_manager, mgr_players)
    IN IF \/ api_manager = None \/ device_id = None
          \/ device_id \notin DOMAIN mgr_players
       THEN NoOp
       ELSE IF PlayRefused(verb, mgr_players[device_id]) THEN NoOp
       ELSE /\ api_published' =
                  <<[call |-> ManagerCommand(ManagerMethod(verb), device_id),
                     returned |-> (pub = "ok")]>>
            /\ api_polls' = 0
            /\ api_raised' = None
            /\ api_state' = [api_state EXCEPT !.playback_status =
                                CASE verb \in {"play", "resume"} -> "playing"
                                  [] verb = "pause" -> "paused"
                                  [] verb = "stop" -> "stopped"]
            /\ UNCHANGED <<mgr_players, api_device_state, api_invoked>>

\* play() / pause() / resume() / stop(): the manager call is inside
\* try/except Exception; no poll and no notification follow.
\* play / pause / resume / stop after _ensure_mqtt_connected: the manager,
\* device and player checks, the checks of play, and the manager call inside
\* try/except Exception (pub is "ok" or "raises").
CommandAfterEnsure(verb, pub) ==
    LET device_id == ResolveDeviceId(env_device_id, api_manager, mgr_players)
    IN IF \/ api_manager = None \/ device_id = None
          \/ device_id \notin DOMAIN mgr_players
       THEN NoOp
       ELSE IF PlayRefused(verb, mgr_players[device_id]) THEN NoOp
       ELSE /\ api_published' =
                  <<[call |-> ManagerCommand(ManagerMethod(verb), device_id),
                     returned |-> (pub = "ok")]>>
            /\ api_polls' = 0
            /\ api_raised' = None
            /\ UNCHANGED <<mgr_players, api_state, api_device_state, api_invoked>>

YotoAPIClient_command(verb, conn, pub) ==
    /\ api_op' = Op(verb, None, 0, api_manager # None /\ ~mgr_connected)
    /\ EnsureMqttConnected(conn)
    /\ CommandAfterEnsure(verb, pub)
    /\ UNCHANGED <<env_device_id, api_manager, mgr_library, api_state_callbacks,
                   api_library>>

\* close(): manager.disconnect() and the manager dropped
YotoAPIClient_close ==
    /\ api_op' = Op("close", None, 0, FALSE)
    /\ api_manager' = None
    /\ mgr_connected' = FALSE
    /\ api_raised' = None
    /\ api_published' = <<>> /\ api_polls' = 0
    /\ UNCHANGED <<env_device_id, mgr_players, mgr_library, api_state,
                   api_device_state, api_state_callbacks, api_invoked,
                   api_connects, api_failed, api_library>>

(***************************************************************************)
(* YotoCoordinator: state. co_players, co_mgr_library and co_connected are *)
(* the state of the coordinator's own manager.                             *)
(***************************************************************************)
VARIABLES
    co_device_id,    \* the device_id argument of the constructor, or None
    co_manager,      \* None or "manager"
    co_players,      \* manager.players
    co_mgr_library,  \* manager.library
    co_connected,    \* the manager's MQTT session is up
    co_task,         \* self._task: None, "running", "cancelled"
    co_state,        \* playback_status, active_card_id, titles, position
    co_library,      \* self.library
    co_callbacks,    \* self._callbacks
    co_invoked,      \* listeners invoked by the last notification
    co_published,    \* commands the last operation handed to the manager
    co_polls,        \* update_players_status calls of the last operation
    co_op,           \* name of the last operation (history)
    co_raised        \* exception raised by the last operation, or None

coVars == <<co_device_id, co_manager, co_players, co_mgr_library, co_connected,
            co_task, co_state, co_library, co_callbacks, co_invoked,
            co_published, co_polls, co_op, co_raised>>

CoInit ==
    /\ co_device_id = None
    /\ co_manager = None
    /\ co_players = <<>>
    /\ co_mgr_library = <<>>
    /\ co_connected = FALSE
    /\ co_task = None
    /\ co_state = ApiState
    /\ co_library = <<>>
    /\ co_callbacks = <<>>
    /\ co_invoked = <<>>
    /\ co_published = <<>>
    /\ co_polls = 0
    /\ co_op = None
    /\ co_raised = None

\* YotoCoordinator._update_state_from_player
CoUpdateStateFromPlayer(manager, players) ==
    LET t == TargetPlayer(co_device_id, manager, players)
    IN IF t = None THEN UNCHANGED co_state
       ELSE co_state' = MirrorOf(players[t], co_library, co_mgr_library)

\* _notify_listeners
NotifyListeners ==
    /\ co_invoked' = InvokeAll(co_callbacks).invoked
    /\ co_raised' = InvokeAll(co_callbacks).raised

\* start(): _init_manager (YotoManager, initialize, connect_to_events,
\* _update_devices, _update_state_from_player) and the update task. An
\* exception of a step is logged and raised again.
YotoCoordinator_start(outcome, player) ==
    /\ co_manager = None /\ co_task = None
    /\ co_op' = "start"
    /\ co_manager' = IF outcome = "auth_error" THEN None ELSE "manager"
    /\ co_players' = IF outcome = "auth_error" THEN <<>> ELSE [d \in {Dev} |-> player]
    /\ co_connected' = (outcome = "ok")
    /\ co_task' = IF outcome = "ok" THEN "running" ELSE None
    /\ IF outcome = "ok" THEN CoUpdateStateFromPlayer("manager", co_players')
       ELSE UNCHANGED co_state
    /\ co_raised' = IF outcome = "ok" THEN None
                    ELSE IF outcome = "auth_error" THEN "AuthenticationError"
                    ELSE "Exception"
    /\ co_published' = <<>> /\ co_polls' = 0
    /\ UNCHANGED <<co_device_id, co_mgr_library, co_library, co_callbacks,
                   co_invoked>>

\* stop(): the task cancelled and awaited with CancelledError caught, then
\* manager.disconnect() and the manager dropped
YotoCoordinator_stop ==
    /\ co_op' = "stop"
    /\ co_task' = IF co_task = "running" THEN "cancelled" ELSE co_task
    /\ co_manager' = None
    /\ co_connected' = FALSE
    /\ co_raised' = None
    /\ co_published' = <<>> /\ co_polls' = 0
    /\ UNCHANGED <<co_device_id, co_players, co_mgr_library, co_state,
                   co_library, co_callbacks, co_invoked>>

\* add_listener
YotoCoordinator_add_listener(cb) ==
    /\ Len(co_callbacks) < MaxCallbacks
    /\ \A i \in 1..Len(co_callbacks) : co_callbacks[i] # cb
    /\ co_callbacks' = Append(co_callbacks, cb)
    /\ co_op' = "add_listener"
    /\ UNCHANGED <<co_device_id, co_manager, co_players, co_mgr_library,
                   co_connected, co_task, co_state, co_library, co_invoked,
                   co_published, co_polls, co_raised>>

\* one iteration of _update_loop: token check, update_players_status,
\* _update_state_from_player, _notify_listeners; an Exception is logged
YotoCoordinator_update_loop(outcome, player) ==
    /\ co_task = "running" /\ co_manager # None
    /\ co_op' = "update_loop"
    /\ co_polls' = 1
    /\ IF outcome = "ok"
       THEN /\ co_players' = IF Dev \in DOMAIN co_players
                             THEN [co_players EXCEPT ![Dev] = player] ELSE co_players
            /\ CoUpdateStateFromPlayer(co_manager, co_players')
            /\ NotifyListeners
       ELSE UNCHANGED <<co_players, co_state, co_invoked, co_raised>>
    /\ co_published' = <<>>
    /\ UNCHANGED <<co_device_id, co_manager, co_mgr_library, co_connected,
                   co_task, co_library, co_callbacks>>

\* _on_event
YotoCoordinator_on_event(player) ==
    /\ co_manager # None /\ co_connected /\ Dev \in DOMAIN co_players
    /\ co_op' = "on_event"
    /\ co_players' = [co_players EXCEPT ![Dev] = player]
    /\ CoUpdateStateFromPlayer(co_manager, co_players')
    /\ NotifyListeners
    /\ co_published' = <<>> /\ co_polls' = 0
    /\ UNCHANGED <<co_device_id, co_manager, co_mgr_library, co_connected,
                   co_task, co_library, co_callbacks>>

CoVerbs == {"play", "pause", "stop_player"}

\* play() / pause() / stop_player(): the manager call for a resolved device,
\* whatever the player's online flag and card; its exception is not caught.
YotoCoordinator_command(verb, pub) ==
    /\ co_op' = verb
    /\ co_polls' = 0
    /\ LET device_id == ResolveDeviceId(co_device_id, co_manager, co_players)
       IN IF co_manager = None \/ device_id = None
          THEN co_published' = <<>> /\ co_raised' = None
          ELSE /\ co_published' = <<ManagerCommand(ManagerMethod(verb), device_id)>>
               /\ co_raised' = IF pub = "ok" THEN None ELSE "Exception"
    /\ UNCHANGED <<co_device_id, co_manager, co_players, co_mgr_library,
                   co_connected, co_task, co_state, co_library, co_callbacks,
                   co_invoked>>

\* play_card(card_id, chapter): the command is handed to the manager; no
\* poll follows and an exception of the manager is not caught.
YotoCoordinator_play_card(card_id, chapter, pub) ==
    /\ co_op' = "play_card"
    /\ co_polls' = 0
    /\ LET device_id == ResolveDeviceId(co_device_id, co_manager, co_players)
       IN IF co_manager = None \/ device_id = None
          THEN co_published' = <<>> /\ co_raised' = None
          ELSE /\ co_published' = <<PlayCommand(device_id, card_id,
                                                ZFill2(Str(chapter)),
                                                ParseKey(Str(chapter)))>>
               /\ co_raised' = IF pub = "ok" THEN None ELSE "Exception"
    /\ UNCHANGED <<co_device_id, co_manager, co_players, co_mgr_library,
                   co_connected, co_task, co_state, co_library, co_callbacks,
                   co_invoked>>

\* next_track() / previous_track(): manager.next_track(device_id) or
\* manager.previous_track(device_id), whatever the current key is
YotoCoordinator_skip_track(verb, pub) ==
    /\ co_op' = verb
    /\ co_polls' = 0
    /\ LET device_id == ResolveDeviceId(co_device_id, co_manager, co_players)
       IN IF co_manager = None \/ device_id = None
          THEN co_published' = <<>> /\ co_raised' = None
          ELSE /\ co_published' = <<[cmd |-> verb, device |-> device_id,
                                     card |-> None, chapterKey |-> <<>>,
                                     trackKey |-> 0]>>
               /\ co_raised' = IF pub = "ok" THEN None ELSE "Exception"
    /\ UNCHANGED <<co_device_id, co_manager, co_players, co_mgr_library,
                   co_connected, co_task, co_state, co_library, co_callbacks,
                   co_invoked>>


(***************************************************************************)
(* The artwork cache directory (cache/art), which YotoAPIClient and        *)
(* YotoCoordinator both use by default.                                    *)
(***************************************************************************)
VARIABLES
    cache_files,  \* the files of the directory: [card, ext]
    art_calls,    \* _get_or_download_artwork calls so far, capped
    art_prev,     \* the call before the last one (history)
    art_last      \* the last call: card, url, cached, fetched, result

artVars == <<cache_files, art_calls, art_prev, art_last>>

\* Bound of the model: _get_or_download_artwork calls in one behaviour.
MaxArtCalls == 3

CardB == "xyz789"
Cards == {CardA, CardB}

NoFile == [card |-> None, ext |-> None]
NoCall == [card |-> None, url |-> None, cached |-> FALSE, fetched |-> 0,
           result |-> NoFile]

\* What requests.get gives for an artwork URL: "error" for an exception or
\* an error status, else the content-type header of the response.
ArtResponses == {"error", "image/jpeg", "image/png", "image/webp", "text/html", ""}

\* "png" in content_type / "webp" in content_type
Contains(content_type, word) ==
    \/ word = "png" /\ content_type = "image/png"
    \/ word = "webp" /\ content_type = "image/webp"

\* the extension _get_or_download_artwork picks
ExtOf(content_type) ==
    IF Contains(content_type, "png") THEN ".png"
    ELSE IF Contains(content_type, "webp") THEN ".webp"
    ELSE ".jpg"

\* Mutant of Glob: only a .jpg file counts as cached.
Glob_jpg_only(files, card_id) == {f \in files : f.card = card_id /\ f.ext = ".jpg"}

\* list(self.cache_dir.glob(f"{card_id}.*"))
Glob(files, card_id) == {f \in files : f.card = card_id}

ArtInit ==
    /\ cache_files = {}
    /\ art_calls = 0
    /\ art_prev = NoCall
    /\ art_last = NoCall

\* Whether a call downloads: nothing cached for the card and a URL given.
Downloads(files, card_id, art_url) == Glob(files, card_id) = {} /\ Truthy(art_url)

\* The body of _get_or_download_artwork(card_id, art_url) on the directory
\* files, with response the outcome of requests.get: the record of the call
\* and the files the directory holds after it.
ArtCall(files, card_id, art_url, response) ==
    LET existing == Glob(files, card_id)
        art_path == [card |-> card_id, ext |-> ExtOf(response)]
    IN IF existing # {}
       THEN [last |-> [card |-> card_id, url |-> art_url, cached |-> TRUE,
                       fetched |-> 0, result |-> CHOOSE f \in existing : TRUE],
             files |-> files]
       ELSE IF ~Downloads(files, card_id, art_url)
       THEN [last |-> [card |-> card_id, url |-> art_url, cached |-> FALSE,
                       fetched |-> 0, result |-> NoFile],
             files |-> files]
       ELSE IF response = "error"
       THEN [last |-> [card |-> card_id, url |-> art_url, cached |-> FALSE,
                       fetched |-> 1, result |-> NoFile],
             files |-> files]
       ELSE [last |-> [card |-> card_id, url |-> art_url, cached |-> FALSE,
                       fetched |-> 1, result |-> art_path],
             files |-> files \cup {art_path}]

\* _get_or_download_artwork(card_id, art_url) as a call of its own
GetOrDownloadArtwork(card_id, art_url, response) ==
    /\ art_calls < MaxArtCalls
    /\ art_calls' = art_calls + 1
    /\ art_prev' = art_last
    /\ art_last' = ArtCall(cache_files, card_id, art_url, response).last
    /\ cache_files' = ArtCall(cache_files, card_id, art_url, response).files

(***************************************************************************)
(* The library cache of YotoAPIClient and YotoCoordinator: self.library    *)
(* (api_library, co_library) with the time it was filled. get_library      *)
(* runs in a worker thread (async_get_library) or as a coroutine that      *)
(* awaits each artwork download, so other calls run between the clearing   *)
(* of the cache and the insertion of each card.                            *)
(***************************************************************************)
VARIABLES
    lib_now,                \* the clock get_library reads
    api_library_timestamp,  \* YotoAPIClient._library_timestamp
    co_library_timestamp,   \* YotoCoordinator._library_timestamp
    api_refresh,            \* the refill of api_library in progress
    co_refresh,             \* the refill of co_library in progress
    lib_call,               \* the last get_library step (history)
    chapters_call           \* the last get_card_chapters call (history)

libVars == <<lib_now, api_library_timestamp, co_library_timestamp,
             api_refresh, co_refresh, lib_call, chapters_call>>

\* self._library_cache_seconds, and the literal of the coordinator
LibraryCacheSeconds == 300

\* The clock starts a max age past the timestamp 0 of a cache that was never
\* filled (time.time() counts from 1970) and advances in steps of half the
\* max age, up to MaxLibTime.
LibTick == LibraryCacheSeconds \div 2
MaxLibTime == 600

\* No refill in progress. A refill holds the card ids the cache held when it
\* began (old), the ones the manager lists (items), the ones not yet
\* inserted (todo) and the time read at the top of the call (now).
NoRefresh == [active |-> FALSE, old |-> {}, items |-> {}, todo |-> {}, now |-> 0]

\* One step of a get_library call: step is "call" for the step the call
\* starts with, "insert" for a later one and "tick" for the clock; hit tells
\* the cache was served, fetched that update_library was called, done that
\* the call has returned, returned the ids of the cards it returned.
LibCall(client, step, force, hit, fetched, done, returned) ==
    [client |-> client, step |-> step, force |-> force, hit |-> hit,
     fetched |-> fetched, done |-> done, returned |-> returned]

\* A get_card_chapters call: fetched tells update_card_detail was called,
\* failed that it raised, kind whether the call returned None or a list,
\* returned the keys of the chapters of that list, raised the exception that
\* left the call.
ChaptersCall(client, card_id, fetched, failed, kind, returned, raised) ==
    [client |-> client, card |-> card_id, fetched |-> fetched, failed |-> failed,
     kind |-> kind, returned |-> returned, raised |-> raised]

LibInit ==
    /\ chapters_call = ChaptersCall(None, None, FALSE, FALSE, "none", <<>>, None)
    /\ lib_now = LibraryCacheSeconds
    /\ api_library_timestamp = 0
    /\ co_library_timestamp = 0
    /\ api_refresh = NoRefresh
    /\ co_refresh = NoRefresh
    /\ lib_call = LibCall(None, None, FALSE, FALSE, FALSE, FALSE, {})

\* Mutant of CacheHit: force_refresh is not read.
CacheHit_ignores_force(force_refresh, library, now, timestamp) ==
    /\ library # <<>>
    /\ now - timestamp < LibraryCacheSeconds

\* not force_refresh and self.library and (now - timestamp) < max age
CacheHit(force_refresh, library, now, timestamp) ==
    /\ ~force_refresh
    /\ library # <<>>
    /\ now - timestamp < LibraryCacheSeconds

\* A get_library that clears the cache before it fetches.
ClearedAfterFetch_cleared_first(library, outcome) == <<>>

\* self.library.clear() follows update_library(): it runs only when the
\* fetch returned
ClearedAfterFetch(library, outcome) ==
    IF outcome = "raises" THEN library ELSE <<>>

\* manager.update_library(): the manager lists the cards items afterwards.
UpdateLibrary(mgrlib, items) ==
    [c \in items |-> IF c \in DOMAIN mgrlib THEN mgrlib[c]
                     ELSE [title |-> CardTitle(c), chapters |-> <<>>]]

\* Card(id=cid, title=item.title) with the art_path of the artwork call
CardOf(mgrlib, cid, art_path) == [title |-> mgrlib[cid].title, art_path |-> art_path]

\* self.library[cid] = card
WithCard(library, cid, card) ==
    [c \in DOMAIN library \cup {cid} |-> IF c = cid THEN card ELSE library[c]]

\* The artwork call of one loop iteration
LibraryArtwork(cid, art_url, response) ==
    /\ art_calls' = Min(art_calls + 1, MaxArtCalls)
    /\ art_prev' = art_last
    /\ art_last' = ArtCall(cache_files, cid, art_url, response).last
    /\ cache_files' = ArtCall(cache_files, cid, art_url, response).files

\* YotoAPIClient.get_library(force_refresh) up to the first artwork
\* download: the manager check, the cache check, update_library (outcome
\* "ok" or "raises") and self.library.clear(). With no card listed the loop
\* is empty and the call stores the timestamp and returns.
YotoAPIClient_get_library(force_refresh, outcome, items) ==
    /\ api_op' = Op("get_library", None, 0, FALSE)
    /\ IF api_manager = None
       THEN /\ lib_call' = LibCall("api", "call", force_refresh, FALSE, FALSE, TRUE, {})
            /\ api_raised' = None
            /\ UNCHANGED <<api_library, mgr_library, api_library_timestamp, api_refresh>>
       ELSE IF CacheHit(force_refresh, api_library, lib_now, api_library_timestamp)
       THEN /\ lib_call' = LibCall("api", "call", force_refresh, TRUE, FALSE, TRUE,
                                   DOMAIN api_library)
            /\ api_raised' = None
            /\ UNCHANGED <<api_library, mgr_library, api_library_timestamp, api_refresh>>
       ELSE IF outcome = "raises"
       THEN /\ ~api_refresh.active
            /\ lib_call' = LibCall("api", "call", force_refresh, FALSE, TRUE, TRUE, {})
            /\ api_raised' = "Exception"
            /\ api_library' = ClearedAfterFetch(api_library, outcome)
            /\ UNCHANGED <<mgr_library, api_library_timestamp, api_refresh>>
       ELSE /\ ~api_refresh.active
            /\ mgr_library' = UpdateLibrary(mgr_library, items)
            /\ api_library' = ClearedAfterFetch(api_library, outcome)
            /\ api_raised' = None
            /\ lib_call' = LibCall("api", "call", force_refresh, FALSE, TRUE, items = {}, {})
            /\ IF items = {}
               THEN /\ api_library_timestamp' = lib_now
                    /\ UNCHANGED api_refresh
               ELSE /\ api_refresh' = [active |-> TRUE, old |-> DOMAIN api_library,
                                       items |-> items, todo |-> items, now |-> lib_now]
                    /\ UNCHANGED api_library_timestamp
    /\ UNCHANGED <<env_device_id, api_manager, mgr_players, mgr_connected,
                   api_state, api_device_state, api_state_callbacks, api_invoked,
                   api_published, api_polls, api_connects, api_failed>>
    /\ UNCHANGED <<lib_now, co_library_timestamp, co_refresh, chapters_call>>

\* One iteration of the loop of YotoAPIClient.get_library: the artwork call
\* for the card and self.library[cid] = card; after the last card the
\* timestamp is stored and the cards are returned.
YotoAPIClient_get_library_insert(cid, art_url, response) ==
    /\ api_refresh.active /\ cid \in api_refresh.todo
    /\ LibraryArtwork(cid, art_url, response)
    /\ api_library' = WithCard(api_library, cid,
                               CardOf(mgr_library, cid, art_last'.result))
    /\ IF api_refresh.todo = {cid}
       THEN /\ api_library_timestamp' = api_refresh.now
            /\ api_refresh' = NoRefresh
            /\ lib_call' = LibCall("api", "insert", FALSE, FALSE, TRUE, TRUE,
                                   api_refresh.items)
       ELSE /\ api_refresh' = [api_refresh EXCEPT !.todo = @ \ {cid}]
            /\ lib_call' = LibCall("api", "insert", FALSE, FALSE, TRUE, FALSE, {})
            /\ UNCHANGED api_library_timestamp
    /\ UNCHANGED <<env_device_id, api_manager, mgr_players, mgr_library,
                   mgr_connected, api_state, api_device_state, api_state_callbacks,
                   api_invoked, api_published, api_polls, api_connects, api_failed,
                   api_op, api_raised>>
    /\ UNCHANGED <<lib_now, co_library_timestamp, co_refresh, chapters_call>>

\* YotoCoordinator.get_library(force_refresh) up to the await of the first
\* artwork download
YotoCoordinator_get_library(force_refresh, outcome, items) ==
    /\ co_op' = "get_library"
    /\ IF co_manager = None
       THEN /\ lib_call' = LibCall("co", "call", force_refresh, FALSE, FALSE, TRUE, {})
            /\ co_raised' = None
            /\ UNCHANGED <<co_library, co_mgr_library, co_library_timestamp, co_refresh>>
       ELSE IF CacheHit(force_refresh, co_library, lib_now, co_library_timestamp)
       THEN /\ lib_call' = LibCall("co", "call", force_refresh, TRUE, FALSE, TRUE,
                                   DOMAIN co_library)
            /\ co_raised' = None
            /\ UNCHANGED <<co_library, co_mgr_library, co_library_timestamp, co_refresh>>
       ELSE IF outcome = "raises"
       THEN /\ ~co_refresh.active
            /\ lib_call' = LibCall("co", "call", force_refresh, FALSE, TRUE, TRUE, {})
            /\ co_raised' = "Exception"
            /\ co_library' = ClearedAfterFetch(co_library, outcome)
            /\ UNCHANGED <<co_mgr_library, co_library_timestamp, co_refresh>>
       ELSE /\ ~co_refresh.active
            /\ co_mgr_library' = UpdateLibrary(co_mgr_library, items)
            /\ co_library' = ClearedAfterFetch(co_library, outcome)
            /\ co_raised' = None
            /\ lib_call' = LibCall("co", "call", force_refresh, FALSE, TRUE, items = {}, {})
            /\ IF items = {}
               THEN /\ co_library_timestamp' = lib_now
                    /\ UNCHANGED co_refresh
               ELSE /\ co_refresh' = [active |-> TRUE, old |-> DOMAIN co_library,
                                      items |-> items, todo |-> items, now |-> lib_now]
                    /\ UNCHANGED co_library_timestamp
    /\ UNCHANGED <<co_device_id, co_manager, co_players, co_connected, co_task,
                   co_state, co_callbacks, co_invoked, co_published, co_polls>>
    /\ UNCHANGED <<lib_now, api_library_timestamp, api_refresh, chapters_call>>

\* The coroutine resumes after one artwork download: self.library[cid] =
\* card, and after the last card the timestamp and the return.
YotoCoordinator_get_library_insert(cid, art_url, response) ==
    /\ co_refresh.active /\ cid \in co_refresh.todo
    /\ LibraryArtwork(cid, art_url, response)
    /\ co_library' = WithCard(co_library, cid,
                              CardOf(co_mgr_library, cid, art_last'.result))
    /\ IF co_refresh.todo = {cid}
       THEN /\ co_library_timestamp' = co_refresh.now
            /\ co_refresh' = NoRefresh
            /\ lib_call' = LibCall("co", "insert", FALSE, FALSE, TRUE, TRUE,
                                   DOMAIN co_library')
       ELSE /\ co_refresh' = [co_refresh EXCEPT !.todo = @ \ {cid}]
            /\ lib_call' = LibCall("co", "insert", FALSE, FALSE, TRUE, FALSE, {})
            /\ UNCHANGED co_library_timestamp
    /\ UNCHANGED <<co_device_id, co_manager, co_players, co_mgr_library,
                   co_connected, co_task, co_state, co_callbacks, co_invoked,
                   co_published, co_polls, co_op, co_raised>>
    /\ UNCHANGED <<lib_now, api_library_timestamp, api_refresh, chapters_call>>

\* LibTick seconds pass on the clock.
Library_tick ==
    /\ lib_now + LibTick <= MaxLibTime
    /\ lib_now' = lib_now + LibTick
    /\ lib_call' = [lib_call EXCEPT !.step = "tick"]
    /\ UNCHANGED <<api_library_timestamp, co_library_timestamp, api_refresh,
                   co_refresh, chapters_call>>

\* Whether get_card_chapters asks the cloud for the detail of the card: the
\* manager lists no such card or no chapter of it.
NeedsDetail(mgrlib, card_id) ==
    card_id \notin DOMAIN mgrlib \/ mgrlib[card_id].chapters = <<>>

\* YotoAPIClient.get_card_chapters(card_id): None without a manager, else
\* the chapters the manager holds after a detail request where one is
\* needed; the except clause of the request logs and returns [].
YotoAPIClient_get_card_chapters(card_id, detail) ==
    /\ api_op' = Op("get_card_chapters", card_id, 0, FALSE)
    /\ api_raised' = None
    /\ IF api_manager = None
       THEN /\ chapters_call' = ChaptersCall("api", card_id, FALSE, FALSE, "none", <<>>, None)
            /\ UNCHANGED mgr_library
       ELSE LET fetched == NeedsDetail(mgr_library, card_id)
                got == GetCardChapters(mgr_library, card_id, detail)
            IN /\ mgr_library' = got.library
               /\ chapters_call' = ChaptersCall("api", card_id, fetched,
                                                fetched /\ detail = -1, "list",
                                                got.chapters, None)
    /\ UNCHANGED <<env_device_id, api_manager, mgr_players, mgr_connected,
                   api_state, api_device_state, api_state_callbacks, api_invoked,
                   api_published, api_polls, api_connects, api_failed, api_library>>
    /\ UNCHANGED <<lib_now, api_library_timestamp, co_library_timestamp,
                   api_refresh, co_refresh, lib_call>>

\* YotoCoordinator.get_card_chapters(card_id)
YotoCoordinator_get_card_chapters(card_id, detail) ==
    /\ co_op' = "get_card_chapters"
    /\ co_raised' = None
    /\ IF co_manager = None
       THEN /\ chapters_call' = ChaptersCall("co", card_id, FALSE, FALSE, "none", <<>>, None)
            /\ UNCHANGED co_mgr_library
       ELSE LET fetched == NeedsDetail(co_mgr_library, card_id)
                got == GetCardChapters(co_mgr_library, card_id, detail)
            IN /\ co_mgr_library' = got.library
               /\ chapters_call' = ChaptersCall("co", card_id, fetched,
                                                fetched /\ detail = -1, "list",
                                                got.chapters, None)
    /\ UNCHANGED <<co_device_id, co_manager, co_players, co_connected, co_task,
                   co_state, co_library, co_callbacks, co_invoked, co_published,
                   co_polls>>
    /\ UNCHANGED <<lib_now, api_library_timestamp, co_library_timestamp,
                   api_refresh, co_refresh, lib_call>>

\* The extension download_missing_art picks from the content type
YcExtOf(content_type) ==
    IF content_type = "image/jpeg" THEN ".jpg"
    ELSE IF Contains(content_type, "png") THEN ".png"
    ELSE IF Contains(content_type, "webp") THEN ".webp"
    ELSE ".jpg"

\* Card.__post_init__: CACHE / f"{self.id}", a path without extension
PostInitPath(card_id) == [card |-> card_id, ext |-> ""]

\* YotoClient.get_library(): fetch_raw_library (outcome "ok" lists the card
\* CardA with a cover URL, "no_cover" lists it without one, "error" is a
\* failed request), build_card_list, download_missing_art with response the
\* outcome of session.get for the cover, and then self.library.clear() and
\* the refill. The download has no try around it: a failed one leaves
\* get_library before the refill.
YotoClient_get_library(outcome, response) ==
    /\ yc_op' = "get_library"
    /\ IF yc_token_data = None
       THEN /\ yc_raised' = "ValueError"
            /\ yc_library_call' = [listed |-> FALSE, art |-> "none", returned |-> {}]
            /\ UNCHANGED <<yc_library, yc_art_cache, yc_art_path>>
       ELSE IF outcome = "error"
       THEN /\ yc_raised' = "HTTPError"
            /\ yc_library_call' = [listed |-> FALSE, art |-> "none", returned |-> {}]
            /\ UNCHANGED <<yc_library, yc_art_cache, yc_art_path>>
       ELSE IF Glob(yc_art_cache, CardA) # {}
       THEN /\ yc_raised' = None
            /\ yc_library' = {CardA}
            /\ yc_art_path' = [c \in {CardA} |->
                                  CHOOSE f \in Glob(yc_art_cache, CardA) : TRUE]
            /\ yc_library_call' = [listed |-> TRUE, art |-> "cached", returned |-> {CardA}]
            /\ UNCHANGED yc_art_cache
       ELSE IF outcome = "no_cover"
       THEN /\ yc_raised' = None
            /\ yc_library' = {CardA}
            /\ yc_art_path' = [c \in {CardA} |-> PostInitPath(c)]
            /\ yc_library_call' = [listed |-> TRUE, art |-> "none", returned |-> {CardA}]
            /\ UNCHANGED yc_art_cache
       ELSE IF response = "error"
       THEN /\ yc_raised' = "HTTPError"
            /\ yc_library_call' = [listed |-> TRUE, art |-> "failed", returned |-> {}]
            /\ UNCHANGED <<yc_library, yc_art_cache, yc_art_path>>
       ELSE /\ yc_raised' = None
            /\ yc_library' = {CardA}
            /\ yc_art_cache' = yc_art_cache \cup {[card |-> CardA, ext |-> YcExtOf(response)]}
            /\ yc_art_path' = [c \in {CardA} |-> [card |-> c, ext |-> YcExtOf(response)]]
            /\ yc_library_call' = [listed |-> TRUE, art |-> "downloaded", returned |-> {CardA}]
    /\ UNCHANGED <<yc_now, yc_token_expires_at, yc_refresh_due, yc_sent,
                   yc_published, yc_token_data, yc_devices, yc_device_id,
                   yc_mqtt_client, yc_mqtt_connected, yc_refresh_task,
                   yc_state_task, yc_session_closed, yc_callbacks,
                   yc_device_state, yc_resp, yc_invoked, yc_events>>

(***************************************************************************)
(* Commands issued through DesktopCoordinator: each slot creates a task    *)
(* that runs the YotoAPIClient method on a worker thread                   *)
(* (asyncio.to_thread), so the methods of several commands interleave.     *)
(***************************************************************************)
VARIABLES
    wk_pc,         \* worker -> "idle", "queued", "connecting", "ready"
    wk_cmd,        \* worker -> the command it runs: verb, index of issuance
    wk_issued,     \* the verbs in the order the slots were called (history)
    wk_attempted   \* indices of the commands in the order of their manager calls

wkVars == <<wk_pc, wk_cmd, wk_issued, wk_attempted>>

\* Bounds of the model: worker threads, and commands issued in one behaviour.
MaxWorkers == 2
MaxCommands == 3

Workers == 1..MaxWorkers

NoCmd == [verb |-> None, index |-> 0]

WkInit ==
    /\ wk_pc = [w \in Workers |-> "idle"]
    /\ wk_cmd = [w \in Workers |-> NoCmd]
    /\ wk_issued = <<>>
    /\ wk_attempted = <<>>

\* The workers inside manager.connect_to_events
Connecting == {w \in Workers : wk_pc[w] = "connecting"}

\* DesktopCoordinator.play / pause / resume / stop:
\* asyncio.create_task(self.api_client.async_<verb>()), which hands the
\* method to a worker thread.
DesktopCoordinator_command(verb) ==
    /\ Len(wk_issued) < MaxCommands
    /\ \E w \in Workers :
          /\ wk_pc[w] = "idle"
          /\ wk_pc' = [wk_pc EXCEPT ![w] = "queued"]
          /\ wk_cmd' = [wk_cmd EXCEPT ![w] = [verb |-> verb, index |-> Len(wk_issued) + 1]]
    /\ wk_issued' = Append(wk_issued, verb)
    /\ UNCHANGED wk_attempted

\* The worker enters the method: _ensure_mqtt_connected reads self.manager
\* and is_mqtt_connected and, with the session down, calls
\* manager.connect_to_events. Nothing serialises the check and the call
\* between workers.
Worker_ensure_mqtt_connected(w) ==
    /\ wk_pc[w] = "queued"
    /\ IF api_manager = None \/ mgr_connected
       THEN /\ wk_pc' = [wk_pc EXCEPT ![w] = "ready"]
            /\ UNCHANGED api_connects
       ELSE /\ wk_pc' = [wk_pc EXCEPT ![w] = "connecting"]
            /\ api_connects' = Min(api_connects + 1, MaxConnects)
    /\ UNCHANGED <<wk_cmd, wk_issued, wk_attempted>>
    /\ UNCHANGED <<env_device_id, api_manager, mgr_players, mgr_library,
                   mgr_connected, api_state, api_device_state, api_state_callbacks,
                   api_invoked, api_published, api_polls, api_failed,
                   api_library, api_op, api_raised>>

\* connect_to_events returns (conn "ok") or raises; the exception is logged.
Worker_connect_returns(w, conn) ==
    /\ wk_pc[w] = "connecting"
    /\ wk_pc' = [wk_pc EXCEPT ![w] = "ready"]
    /\ mgr_connected' = (conn = "ok")
    /\ api_failed' = IF conn = "ok" THEN 0 ELSE Min(api_failed + 1, MaxConnects)
    /\ UNCHANGED <<wk_cmd, wk_issued, wk_attempted>>
    /\ UNCHANGED <<env_device_id, api_manager, mgr_players, mgr_library,
                   api_state, api_device_state, api_state_callbacks,
                   api_invoked, api_published, api_polls, api_connects,
                   api_library, api_op, api_raised>>

\* The rest of the method on the worker: the checks and the manager call.
Worker_command(w, pub) ==
    /\ wk_pc[w] = "ready"
    /\ api_op' = Op(wk_cmd[w].verb, None, 0, FALSE)
    /\ CommandAfterEnsure(wk_cmd[w].verb, pub)
    /\ wk_attempted' = IF api_published' # <<>>
                       THEN Append(wk_attempted, wk_cmd[w].index)
                       ELSE wk_attempted
    /\ wk_pc' = [wk_pc EXCEPT ![w] = "idle"]
    /\ wk_cmd' = [wk_cmd EXCEPT ![w] = NoCmd]
    /\ UNCHANGED wk_issued
    /\ UNCHANGED <<env_device_id, api_manager, mgr_library, mgr_connected,
                   api_state_callbacks, api_connects, api_failed, api_library>>

(***************************************************************************)
(* The connect and disconnect callbacks of YotoClient's MQTT session       *)
(***************************************************************************)
VARIABLES
    mq_devices,     \* keys of self.devices, in insertion order
    mq_connected,   \* the _mqtt_connected flag seen by the callbacks
    mq_log,         \* broker operations issued by the last connect callback
    mq_failed,      \* positions of mq_log whose result was not MQTT_ERR_SUCCESS
    mq_rc           \* reason code of the last callback, NoReason before the first

mqVars == <<mq_devices, mq_connected, mq_log, mq_failed, mq_rc>>

MaxDevices == 2

DeviceIds == 1..MaxDevices

\* the orders in which _load_devices can have filled self.devices
DeviceOrders ==
    {d \in UNION {[1..n -> DeviceIds] : n \in 0..MaxDevices} :
        \A i, j \in DOMAIN d : d[i] = d[j] => i = j}

ReasonCodes == {0, 4, 5, 7}

\* no callback has run yet
NoReason == 0 - 1

MqInit ==
    /\ mq_devices = <<>>
    /\ mq_connected = FALSE
    /\ mq_log = <<>>
    /\ mq_failed = {}
    /\ mq_rc = NoReason

\* f"device/{device_id}/..."
Topic(device_id, rest) == <<"device", device_id>> \o rest

SubscribeTopics(device_id) ==
    << Topic(device_id, <<"events">>),
       Topic(device_id, <<"status">>),
       Topic(device_id, <<"response">>) >>

\* a callback that subscribes to the events topic only
Subscriptions_events_only(devices) ==
    [i \in 1..Len(devices) |->
        [op |-> "subscribe",
         topic |-> Topic(devices[i], <<"events">>),
         payload |-> None]]

\* the first loop of the callback: three subscriptions per device
Subscriptions(devices) ==
    [i \in 1..(3 * Len(devices)) |->
        [op |-> "subscribe",
         topic |-> SubscribeTopics(devices[((i - 1) \div 3) + 1])[((i - 1) % 3) + 1],
         payload |-> None]]

\* the second loop of the callback: one publish without payload per device
Probes(devices) ==
    [i \in 1..Len(devices) |->
        [op |-> "publish",
         topic |-> Topic(devices[i], <<"command", "events">>),
         payload |-> ""]]

\* the possible results of the calls: all succeed, one fails, all fail
FailurePatterns(n) == {{}} \cup {{i} : i \in 1..n} \cup {1..n}

YotoClient_load_devices(order) ==
    /\ mq_devices = <<>>
    /\ mq_rc = NoReason
    /\ order # <<>>
    /\ mq_devices' = order
    /\ UNCHANGED <<mq_connected, mq_log, mq_failed, mq_rc>>

YotoClient_on_mqtt_connect(rc, failed) ==
    /\ mq_rc' = rc
    /\ IF rc # 0
         THEN /\ mq_connected' = FALSE
              /\ mq_log' = <<>>
              /\ mq_failed' = {}
         ELSE /\ mq_connected' = TRUE
              /\ mq_log' = Subscriptions(mq_devices) \o Probes(mq_devices)
              /\ mq_failed' = failed
    /\ UNCHANGED mq_devices

YotoClient_on_mqtt_disconnect(rc) ==
    /\ mq_rc # NoReason
    /\ mq_connected' = FALSE
    /\ mq_rc' = rc
    /\ UNCHANGED <<mq_devices, mq_log, mq_failed>>

(***************************************************************************)
(* _update_state_from_player assignment by assignment, and a reader on     *)
(* another thread                                                          *)
(***************************************************************************)
VARIABLES
    up_pc,      \* 0: no update in progress; k: the k-th assignment is next
    up_before,  \* the mirrored fields when the update in progress began
    up_after,   \* the mirrored fields the update in progress is writing
    up_seen     \* what the reader last read, with the update it read during

upVars == <<up_pc, up_before, up_after, up_seen>>

\* the assignments of _update_state_from_player, in source order
MirrorOrder ==
    <<"playback_status", "active_card_id", "current_chapter_title",
      "current_track_title", "track_position", "track_length",
      "current_card_title">>

UpInit ==
    /\ up_pc = 0
    /\ up_before = ApiState
    /\ up_after = ApiState
    /\ up_seen = [state |-> ApiState, before |-> ApiState, after |-> ApiState]

\* the mirrored fields once the first k assignments have run
AssignedBy(k, old, new) ==
    [f \in DOMAIN old |->
        IF \E i \in 1..k : MirrorOrder[i] = f THEN new[f] ELSE old[f]]

\* a thread enters _update_state_from_player and reads the player
UpdateState_begin(player) ==
    /\ up_pc = 0
    /\ TargetPlayer(env_device_id, api_manager, mgr_players) # None
    /\ mgr_players' = [mgr_players EXCEPT
                          ![TargetPlayer(env_device_id, api_manager, mgr_players)] = player]
    /\ up_before' = api_state
    /\ up_after' = MirrorOf(player, api_library, mgr_library)
    /\ up_pc' = 1
    /\ api_op' = Op("_update_state_from_player", None, 0, FALSE)
    /\ UNCHANGED <<env_device_id, api_manager, mgr_library, mgr_connected,
                   api_state, api_device_state, api_state_callbacks, api_invoked,
                   api_published, api_polls, api_connects, api_failed,
                   api_library, api_raised, up_seen>>

\* its next assignment; the extended device state follows the last one
UpdateState_assign ==
    /\ up_pc # 0
    /\ api_state' = AssignedBy(up_pc, up_before, up_after)
    /\ up_pc' = IF up_pc = Len(MirrorOrder) THEN 0 ELSE up_pc + 1
    /\ api_device_state' =
          IF up_pc = Len(MirrorOrder)
          THEN DeviceStateOf(
                  mgr_players[TargetPlayer(env_device_id, api_manager, mgr_players)],
                  api_device_state)
          ELSE api_device_state
    /\ UNCHANGED <<env_device_id, api_manager, mgr_players, mgr_library,
                   mgr_connected, api_state_callbacks, api_invoked,
                   api_published, api_polls, api_connects, api_failed,
                   api_library, api_op, api_raised, up_before, up_after, up_seen>>

\* the reader reads the mirrored fields while the update is in progress
Consumer_read ==
    /\ up_pc # 0
    /\ up_seen' = [state |-> api_state, before |-> up_before, after |-> up_after]
    /\ up_seen' # up_seen
    /\ UNCHANGED <<up_pc, up_before, up_after>>

(***************************************************************************)
(* DesktopCoordinator: its API client, its signals and its properties      *)
(***************************************************************************)
VARIABLES
    dc_op,          \* the last operation on the coordinator, None before __init__
    dc_has_client,  \* self.api_client is not None
    dc_client,      \* playback_status, active_card_id and current_card_title of the client
    dc_registered,  \* _on_state_change is among the client's state callbacks
    dc_received,    \* which signals a connected handler has received
    dc_script,      \* how far the steps of coordinator_test.py have been followed
    dc_read         \* the properties as last read, and the step they were read at

dcVars == <<dc_op, dc_has_client, dc_client, dc_registered, dc_received,
            dc_script, dc_read>>

\* the three fields of a fresh YotoAPIClient
ClientFields ==
    [playback_status |-> ApiState.playback_status,
     active_card_id |-> ApiState.active_card_id,
     current_card_title |-> ApiState.current_card_title]

\* what coordinator_test.py writes into the client
TestFields ==
    [playback_status |-> "playing", active_card_id |-> "test123",
     current_card_title |-> "Test Card"]

\* the Qt properties of the coordinator
Properties(has_client, client) ==
    [playbackStatus |-> IF has_client THEN client.playback_status ELSE "stopped",
     activeCardId |-> IF has_client THEN Or(client.active_card_id, "") ELSE "",
     currentCardTitle |-> IF has_client THEN Or(client.current_card_title, "") ELSE "",
     isPlaying |-> has_client /\ client.playback_status = "playing",
     isPaused |-> has_client /\ client.playback_status = "paused",
     hasActiveContent |-> has_client /\ Truthy(client.active_card_id),
     showNowPlaying |-> has_client /\ client.active_card_id # None]

DcInit ==
    /\ dc_op = None
    /\ dc_has_client = FALSE
    /\ dc_client = ClientFields
    /\ dc_registered = FALSE
    /\ dc_received = [playback |-> FALSE, card |-> FALSE]
    /\ dc_script = 0
    /\ dc_read = [at |-> 0, values |-> Properties(FALSE, ClientFields)]

\* __init__ and _initialize_client: a client exists when the environment
\* holds credentials; the callback is registered when authenticate succeeds,
\* and the client then mirrors the player.
DesktopCoordinator_init(credentials, outcome, player) ==
    /\ dc_op = None
    /\ dc_op' = "__init__"
    /\ dc_has_client' = credentials
    /\ dc_registered' = (credentials /\ outcome = "ok")
    /\ dc_client' =
          IF credentials /\ outcome = "ok"
          THEN [f \in DOMAIN ClientFields |-> MirrorOf(player, <<>>, <<>>)[f]]
          ELSE ClientFields
    /\ UNCHANGED <<dc_received, dc_script, dc_read>>

\* the test writes the three fields into coordinator.api_client
Test_set_client_fields(fields) ==
    /\ dc_op # None
    /\ dc_has_client
    /\ dc_op' = "set"
    /\ dc_client' = fields
    /\ dc_script' = IF fields = TestFields THEN 1 ELSE 0
    /\ dc_received' = [playback |-> FALSE, card |-> FALSE]
    /\ UNCHANGED <<dc_has_client, dc_registered, dc_read>>

\* _on_state_change
DesktopCoordinator_on_state_change ==
    /\ dc_op # None
    /\ dc_op' = "_on_state_change"
    /\ dc_received' = IF dc_has_client
                      THEN [playback |-> TRUE, card |-> TRUE]
                      ELSE dc_received
    /\ dc_script' = IF dc_script = 1 THEN 2 ELSE dc_script
    /\ UNCHANGED <<dc_has_client, dc_client, dc_registered, dc_read>>

\* cleanup
DesktopCoordinator_cleanup ==
    /\ dc_op # None
    /\ dc_op' = "cleanup"
    /\ dc_has_client' = FALSE
    /\ dc_registered' = FALSE
    /\ dc_script' = IF dc_script = 2 THEN 3 ELSE 0
    /\ UNCHANGED <<dc_client, dc_received, dc_read>>

\* the test reads the properties
Test_read_properties ==
    /\ dc_op # None
    /\ dc_op' = "read"
    /\ dc_read' = [at |-> dc_script, values |-> Properties(dc_has_client, dc_client)]
    /\ UNCHANGED <<dc_has_client, dc_client, dc_registered, dc_received, dc_script>>

(***************************************************************************)
(* Resolution of the target device by the three clients                    *)
(***************************************************************************)
VARIABLES
    tg_client,      \* the client that resolved last, None before the first
    tg_configured,  \* the configured device id it saw, None when it has none
    tg_known,       \* the devices it knew, in dictionary order: [id, online]
    tg_target       \* the device id it resolved, None when it resolved none

tgVars == <<tg_client, tg_configured, tg_known, tg_target>>

DevB == "dev2"

TgInit ==
    /\ tg_client = None
    /\ tg_configured = None
    /\ tg_known = <<>>
    /\ tg_target = None

\* _resolve_device_id over the players in dictionary order: the configured
\* id, else next(iter(self.manager.players)), else None
ResolveDeviceIdIn(configured, manager, players) ==
    IF Truthy(configured) THEN configured
    ELSE IF manager # None /\ players # <<>> THEN players[1].id
    ELSE None

\* the positions of the online devices
OnlineAt(devices) == {i \in DOMAIN devices : devices[i].online}

\* YotoClient._select_device: the first online device, else the first
\* device, else RuntimeError (no device id is set)
SelectDevice(devices) ==
    IF OnlineAt(devices) # {}
    THEN devices[CHOOSE i \in OnlineAt(devices) : \A j \in OnlineAt(devices) : i <= j].id
    ELSE IF devices # <<>> THEN devices[1].id
    ELSE None

YotoAPIClient_resolve_device_id(configured, manager, players) ==
    /\ manager = None => players = <<>>
    /\ tg_client' = "YotoAPIClient"
    /\ tg_configured' = configured
    /\ tg_known' = players
    /\ tg_target' = ResolveDeviceIdIn(configured, manager, players)

YotoCoordinator_resolve_device_id(configured, manager, players) ==
    /\ manager = None => players = <<>>
    /\ tg_client' = "YotoCoordinator"
    /\ tg_configured' = configured
    /\ tg_known' = players
    /\ tg_target' = ResolveDeviceIdIn(configured, manager, players)

YotoClient_select_device(devices) ==
    /\ tg_client' = "YotoClient"
    /\ tg_configured' = None
    /\ tg_known' = devices
    /\ tg_target' = SelectDevice(devices)

(***************************************************************************)
(* The artwork file of a card while _get_or_download_artwork writes it     *)
(***************************************************************************)
VARIABLES
    aw_files,   \* the files of the cache directory: [card, ext, complete]
    aw_pc,      \* per thread: "idle", "fetching", "writing"
    aw_call,    \* per thread: the card and the extension of its call
    aw_seen     \* the file a reader was last handed, NoSeen before the first

awVars == <<aw_files, aw_pc, aw_call, aw_seen>>

MaxArtThreads == 2

ArtThreads == 1..MaxArtThreads

NoSeen == [card |-> None, ext |-> "", complete |-> TRUE]

AwInit ==
    /\ aw_files = {}
    /\ aw_pc = [t \in ArtThreads |-> "idle"]
    /\ aw_call = [t \in ArtThreads |-> [card |-> None, ext |-> ""]]
    /\ aw_seen = NoSeen

\* the existing-file check: a cached file is returned, without a URL the
\* call returns None, otherwise the download starts
ArtThread_check(t, card_id, art_url) ==
    /\ aw_pc[t] = "idle"
    /\ IF Glob(aw_files, card_id) # {}
       THEN /\ aw_seen' = CHOOSE f \in Glob(aw_files, card_id) : TRUE
            /\ UNCHANGED <<aw_pc, aw_call>>
       ELSE IF ~Truthy(art_url)
       THEN UNCHANGED <<aw_pc, aw_call, aw_seen>>
       ELSE /\ aw_pc' = [aw_pc EXCEPT ![t] = "fetching"]
            /\ aw_call' = [aw_call EXCEPT ![t] = [card |-> card_id, ext |-> ""]]
            /\ UNCHANGED aw_seen
    /\ UNCHANGED aw_files

\* requests.get returns: a failed request ends the call; otherwise
\* write_bytes opens the file under its final name, empty
ArtThread_open(t, response) ==
    /\ aw_pc[t] = "fetching"
    /\ IF response = "error"
       THEN /\ aw_pc' = [aw_pc EXCEPT ![t] = "idle"]
            /\ UNCHANGED <<aw_files, aw_call>>
       ELSE /\ aw_pc' = [aw_pc EXCEPT ![t] = "writing"]
            /\ aw_call' = [aw_call EXCEPT ![t].ext = ExtOf(response)]
            /\ aw_files' =
                  {f \in aw_files :
                      ~(f.card = aw_call[t].card /\ f.ext = ExtOf(response))}
                  \cup {[card |-> aw_call[t].card, ext |-> ExtOf(response),
                         complete |-> FALSE]}
    /\ UNCHANGED aw_seen

\* write_bytes writes the content and closes the file, or raises before the
\* content is written (the exception is logged, the file stays)
ArtThread_write(t, outcome) ==
    /\ aw_pc[t] = "writing"
    /\ aw_pc' = [aw_pc EXCEPT ![t] = "idle"]
    /\ aw_files' =
          IF outcome = "ok"
          THEN {f \in aw_files :
                   ~(f.card = aw_call[t].card /\ f.ext = aw_call[t].ext)}
               \cup {[card |-> aw_call[t].card, ext |-> aw_call[t].ext,
                      complete |-> TRUE]}
          ELSE aw_files
    /\ UNCHANGED <<aw_call, aw_seen>>

(***************************************************************************)
(* _parse_key of YotoAPIClient and YotoCoordinator on arbitrary keys       *)
(***************************************************************************)
VARIABLES
    pk_client,  \* the client whose _parse_key ran last, None before the first
    pk_key,     \* the key it was given (the empty key stands for None and "")
    pk_result   \* what it returned

pkVars == <<pk_client, pk_key, pk_result>>

PkInit ==
    /\ pk_client = None
    /\ pk_key = <<>>
    /\ pk_result = 1

\* YotoCoordinator._parse_key: int(digits) inside try/except Exception
CoParseKey(key) ==
    IF key = <<>> THEN 1
    ELSE LET digits == SelectSeq(key, IsDigit)
         IN IF digits = <<>> \/ (\E i \in 1..Len(digits) : digits[i] = "sup2")
            THEN 1
            ELSE IntOf(digits)

YotoAPIClient_parse_key(key) ==
    /\ pk_client' = "YotoAPIClient"
    /\ pk_key' = key
    /\ pk_result' = ParseKey(key)

YotoCoordinator_parse_key(key) ==
    /\ pk_client' = "YotoCoordinator"
    /\ pk_key' = key
    /\ pk_result' = CoParseKey(key)

(***************************************************************************)
(* The callback lists of YotoAPIClient and YotoCoordinator when callbacks  *)
(* are added twice, removed, and removed while a notification runs         *)
(***************************************************************************)
VARIABLES
    nf_api,      \* YotoAPIClient._state_callbacks
    nf_co,       \* YotoCoordinator._callbacks
    nf_removed,  \* per client: callbacks whose last add/remove call was a remove
    nf_last      \* the last notification: client, list and removed set at its
                 \* start, callbacks invoked in order, callbacks removed
                 \* by the invoked ones

nfVars == <<nf_api, nf_co, nf_removed, nf_last>>

MaxListeners == 3

Listeners == {"cb_x", "cb_y"}

NfInit ==
    /\ nf_api = <<>>
    /\ nf_co = <<>>
    /\ nf_removed = [c \in {"YotoAPIClient", "YotoCoordinator"} |-> {}]
    /\ nf_last = [client |-> None, registered |-> <<>>, removed |-> {},
                  invoked |-> <<>>, dropped |-> {}]

Has(cbs, cb) == \E i \in 1..Len(cbs) : cbs[i] = cb

\* list.remove(cb) behind "if cb in list": the first occurrence goes
RemoveFirst(cbs, cb) ==
    IF ~Has(cbs, cb) THEN cbs
    ELSE LET k == CHOOSE i \in 1..Len(cbs) :
                     cbs[i] = cb /\ \A j \in 1..(i - 1) : cbs[j] # cb
         IN SubSeq(cbs, 1, k - 1) \o SubSeq(cbs, k + 1, Len(cbs))

\* "for callback in list(self._callbacks)": the loop runs over a copy made
\* at its start; removes[c] is the callback c removes when invoked, or None
RECURSIVE NotifyCopy(_, _, _, _)
NotifyCopy(copy, live, invoked, removes) ==
    IF copy = <<>> THEN [invoked |-> invoked, left |-> live]
    ELSE LET c == Head(copy)
         IN NotifyCopy(Tail(copy),
                       IF removes[c] = None THEN live
                       ELSE RemoveFirst(live, removes[c]),
                       Append(invoked, c), removes)

\* "for callback in self._state_callbacks": the loop indexes the list
\* itself, position i next
RECURSIVE NotifyLive(_, _, _, _)
NotifyLive(cbs, i, invoked, removes) ==
    IF i > Len(cbs) THEN [invoked |-> invoked, left |-> cbs]
    ELSE LET c == cbs[i]
         IN NotifyLive(IF removes[c] = None THEN cbs
                       ELSE RemoveFirst(cbs, removes[c]),
                       i + 1, Append(invoked, c), removes)

\* the callbacks that the invoked callbacks asked to remove
Dropped(invoked, removes) ==
    {removes[invoked[i]] : i \in 1..Len(invoked)} \ {None}

\* add_state_callback: appended, whether registered already or not
YotoAPIClient_add_state_callback_again(cb) ==
    /\ Len(nf_api) < MaxListeners
    /\ nf_api' = Append(nf_api, cb)
    /\ nf_removed' = [nf_removed EXCEPT !["YotoAPIClient"] = @ \ {cb}]
    /\ UNCHANGED <<nf_co, nf_last>>

YotoAPIClient_remove_state_callback(cb) ==
    /\ nf_api' = RemoveFirst(nf_api, cb)
    /\ nf_removed' = [nf_removed EXCEPT !["YotoAPIClient"] = @ \cup {cb}]
    /\ UNCHANGED <<nf_co, nf_last>>

YotoAPIClient_notify_state_change(removes) ==
    LET run == NotifyLive(nf_api, 1, <<>>, removes)
    IN /\ nf_last' = [client |-> "YotoAPIClient", registered |-> nf_api,
                      removed |-> nf_removed["YotoAPIClient"],
                      invoked |-> run.invoked,
                      dropped |-> Dropped(run.invoked, removes)]
       /\ nf_api' = run.left
       /\ nf_removed' = [nf_removed EXCEPT !["YotoAPIClient"] =
                            @ \cup Dropped(run.invoked, removes)]
       /\ UNCHANGED nf_co

\* add_listener: appended only "if callback not in self._callbacks"
YotoCoordinator_add_listener_again(cb) ==
    /\ nf_co' = IF Has(nf_co, cb) THEN nf_co ELSE Append(nf_co, cb)
    /\ nf_removed' = [nf_removed EXCEPT !["YotoCoordinator"] = @ \ {cb}]
    /\ UNCHANGED <<nf_api, nf_last>>

YotoCoordinator_remove_listener(cb) ==
    /\ nf_co' = RemoveFirst(nf_co, cb)
    /\ nf_removed' = [nf_removed EXCEPT !["YotoCoordinator"] = @ \cup {cb}]
    /\ UNCHANGED <<nf_api, nf_last>>

YotoCoordinator_notify_listeners(removes) ==
    LET run == NotifyCopy(nf_co, nf_co, <<>>, removes)
    IN /\ nf_last' = [client |-> "YotoCoordinator", registered |-> nf_co,
                      removed |-> nf_removed["YotoCoordinator"],
                      invoked |-> run.invoked,
                      dropped |-> Dropped(run.invoked, removes)]
       /\ nf_co' = run.left
       /\ nf_removed' = [nf_removed EXCEPT !["YotoCoordinator"] =
                            @ \cup Dropped(run.invoked, removes)]
       /\ UNCHANGED nf_api

(***************************************************************************)
(* YotoClient's MQTT connection flag: the client object, the connect and   *)
(* disconnect callbacks, _disconnect_mqtt and _publish_device_command      *)
(***************************************************************************)
VARIABLES
    mc_client,   \* self.mqtt_client: None or "client"
    mc_flag,     \* self._mqtt_connected
    mc_last,     \* the last of: "connect" callback, "disconnect" callback,
                 \* "disconnect_mqtt"; None before any
    mc_rc,       \* the reason code of the last callback
    mc_op,       \* the last operation
    mc_ops,      \* the subscribe / publish calls the last operation made
    mc_pending,  \* the command whose publish() is waiting for its thread
    mc_result    \* what the last _publish_device_command returned

mcVars == <<mc_client, mc_flag, mc_last, mc_rc, mc_op, mc_ops, mc_pending,
            mc_result>>

NoPending == [device |-> 0, command |-> None]

McInit ==
    /\ mc_client = None
    /\ mc_flag = FALSE
    /\ mc_last = None
    /\ mc_rc = NoReason
    /\ mc_op = None
    /\ mc_ops = <<>>
    /\ mc_pending = NoPending
    /\ mc_result = None

\* a connect callback that takes every reason code for success
ConnectAccepted_any(rc) == TRUE

\* "if rc != 0: ... self._mqtt_connected = False; return"
ConnectAccepted(rc) == rc = 0

\* the is_mqtt_connected property; is_connected is the answer of the
\* client object's own is_connected()
IsMqttConnected(is_connected) ==
    mc_client # None /\ is_connected /\ mc_flag

\* create_and_connect of _connect_mqtt: a new client object, its callbacks
\* set, connect() and loop_start() called
YotoClient_connect_mqtt ==
    /\ mc_op' = "connect_mqtt"
    /\ mc_client' = "client"
    /\ mc_ops' = <<>>
    /\ UNCHANGED <<mc_flag, mc_last, mc_rc, mc_pending, mc_result>>

\* _on_mqtt_connect on the client's network thread, over the devices known
YotoClient_on_connect(rc, devices) ==
    /\ mc_client # None
    /\ mc_op' = "on_connect"
    /\ mc_last' = "connect"
    /\ mc_rc' = rc
    /\ mc_flag' = ConnectAccepted(rc)
    /\ mc_ops' = IF ConnectAccepted(rc)
                 THEN Subscriptions(devices) \o Probes(devices) ELSE <<>>
    /\ UNCHANGED <<mc_client, mc_pending, mc_result>>

\* _on_mqtt_disconnect on the client's network thread
YotoClient_on_disconnect(rc) ==
    /\ mc_client # None
    /\ mc_op' = "on_disconnect"
    /\ mc_last' = "disconnect"
    /\ mc_rc' = rc
    /\ mc_flag' = FALSE
    /\ mc_ops' = <<>>
    /\ UNCHANGED <<mc_client, mc_pending, mc_result>>

\* _disconnect_mqtt: nothing without a client object
YotoClient_disconnect_mqtt ==
    /\ mc_op' = "disconnect_mqtt"
    /\ mc_ops' = <<>>
    /\ IF mc_client = None
       THEN UNCHANGED <<mc_client, mc_flag, mc_last>>
       ELSE /\ mc_flag' = FALSE
            /\ mc_client' = None
            /\ mc_last' = "disconnect_mqtt"
    /\ UNCHANGED <<mc_rc, mc_pending, mc_result>>

\* _publish_device_command up to its await of the thread running publish():
\* False when is_mqtt_connected is false or the device is unknown; one
\* command at a time
YotoClient_publish_device_command(device_id, command, is_connected, devices) ==
    /\ mc_pending = NoPending
    /\ mc_op' = "publish_device_command"
    /\ mc_ops' = <<>>
    /\ IF ~IsMqttConnected(is_connected)
          \/ device_id \notin {devices[i] : i \in 1..Len(devices)}
       THEN /\ mc_result' = "False"
            /\ UNCHANGED mc_pending
       ELSE /\ mc_result' = None
            /\ mc_pending' = [device |-> device_id, command |-> command]
    /\ UNCHANGED <<mc_client, mc_flag, mc_last, mc_rc>>

\* publish() on its thread: RuntimeError without a client object or for a
\* result code other than success; _publish_device_command turns it into False
YotoClient_publish(pub) ==
    /\ mc_pending # NoPending
    /\ mc_op' = "publish"
    /\ mc_pending' = NoPending
    /\ IF mc_client = None
       THEN mc_ops' = <<>> /\ mc_result' = "False"
       ELSE /\ mc_ops' = <<[op |-> "publish",
                            topic |-> Topic(mc_pending.device,
                                            <<"command", mc_pending.command>>),
                            payload |-> ""]>>
            /\ mc_result' = IF pub = "ok" THEN "True" ELSE "False"
    /\ UNCHANGED <<mc_client, mc_flag, mc_last, mc_rc>>

(***************************************************************************)
(* CardSelection: the primary selected id and the set of selected ids      *)
(***************************************************************************)
VARIABLES
    cs_multi_select,       \* self.multi_select
    cs_selected_card_id,   \* self._selected_card_id
    cs_selected_cards,     \* self._selected_cards
    cs_op,                 \* the last operation
    cs_returned,           \* what it returned
    cs_event               \* the event it handed to the callbacks

csVars == <<cs_multi_select, cs_selected_card_id, cs_selected_cards, cs_op,
            cs_returned, cs_event>>

SelectableIds == {"card1", "card2", "card3"}

NoEvent == [selected_card_id |-> None, previous_card_id |-> None,
            selection_type |-> "none"]

\* SelectionEvent as _notify_selection_change builds it; nothing without notify
SelectionEvent(notify, card_id, previous_id, selection_type) ==
    IF notify
    THEN [selected_card_id |-> card_id, previous_card_id |-> previous_id,
          selection_type |-> selection_type]
    ELSE NoEvent

CsInit ==
    /\ cs_multi_select = FALSE
    /\ cs_selected_card_id = None
    /\ cs_selected_cards = {}
    /\ cs_op = None
    /\ cs_returned = None
    /\ cs_event = NoEvent

\* a toggle-off that leaves the primary id alone
PrimaryAfterRemove_kept(primary, card_id, remaining, next) == primary

\* "if card_id == self._selected_card_id: self._selected_card_id =
\* next(iter(self._selected_cards)) if self._selected_cards else None";
\* next is the member the set's iterator yields first
PrimaryAfterRemove(primary, card_id, remaining, next) ==
    IF card_id = primary
    THEN (IF remaining = {} THEN None ELSE next)
    ELSE primary

\* _select_single
SelectSingle(card_id, notify) ==
    IF card_id = cs_selected_card_id
    THEN /\ cs_returned' = "False"
         /\ cs_event' = NoEvent
         /\ UNCHANGED <<cs_selected_card_id, cs_selected_cards>>
    ELSE /\ cs_selected_card_id' = card_id
         /\ cs_selected_cards' = IF Truthy(card_id) THEN {card_id} ELSE {}
         /\ cs_event' = SelectionEvent(notify, card_id, cs_selected_card_id, "single")
         /\ cs_returned' = "True"

\* _select_multi
SelectMulti(card_id, notify) ==
    IF card_id = None
    THEN IF cs_selected_cards # {}
         THEN /\ cs_selected_cards' = {}
              /\ cs_selected_card_id' = None
              /\ cs_event' = SelectionEvent(notify, None, None, "single")
              /\ cs_returned' = "True"
         ELSE /\ cs_returned' = "False"
              /\ cs_event' = NoEvent
              /\ UNCHANGED <<cs_selected_card_id, cs_selected_cards>>
    ELSE IF card_id \in cs_selected_cards
    THEN LET remaining == cs_selected_cards \ {card_id}
         IN /\ cs_selected_cards' = remaining
            /\ \E next \in (IF remaining = {} THEN {None} ELSE remaining) :
                  cs_selected_card_id' =
                     PrimaryAfterRemove(cs_selected_card_id, card_id, remaining, next)
            /\ cs_event' = SelectionEvent(notify, card_id, cs_selected_card_id,
                                          "multi_remove")
            /\ cs_returned' = "True"
    ELSE /\ cs_selected_cards' = cs_selected_cards \cup {card_id}
         /\ cs_selected_card_id' = card_id
         /\ cs_event' = SelectionEvent(notify, card_id, cs_selected_card_id,
                                       "multi_add")
         /\ cs_returned' = "True"

\* select_card(card_id, notify); card_id None clears
CardSelection_select_card(card_id, notify) ==
    /\ cs_op' = "select_card"
    /\ IF cs_multi_select THEN SelectMulti(card_id, notify)
                          ELSE SelectSingle(card_id, notify)
    /\ UNCHANGED cs_multi_select

\* toggle_card(card_id, notify): select_card in either mode
CardSelection_toggle_card(card_id, notify) ==
    /\ cs_op' = "toggle_card"
    /\ IF cs_multi_select THEN SelectMulti(card_id, notify)
                          ELSE SelectSingle(card_id, notify)
    /\ UNCHANGED cs_multi_select

\* the body of clear_selection; cleared and kept are what the call that
\* runs it returns in the two cases
ClearSelection(notify, cleared, kept) ==
    IF cs_selected_cards = {} /\ cs_selected_card_id = None
    THEN /\ cs_returned' = kept
         /\ cs_event' = NoEvent
         /\ UNCHANGED <<cs_selected_card_id, cs_selected_cards>>
    ELSE /\ cs_selected_card_id' = None
         /\ cs_selected_cards' = {}
         /\ cs_event' = SelectionEvent(notify, None, cs_selected_card_id, "single")
         /\ cs_returned' = cleared

CardSelection_clear_selection(notify) ==
    /\ cs_op' = "clear_selection"
    /\ ClearSelection(notify, "True", "False")
    /\ UNCHANGED cs_multi_select

\* set_multi_select_mode(enabled, clear_current): returns None
CardSelection_set_multi_select_mode(enabled, clear_current) ==
    /\ cs_op' = "set_multi_select_mode"
    /\ IF cs_multi_select = enabled
       THEN /\ cs_returned' = None
            /\ cs_event' = NoEvent
            /\ UNCHANGED <<cs_multi_select, cs_selected_card_id, cs_selected_cards>>
       ELSE /\ cs_multi_select' = enabled
            /\ IF clear_current
               THEN ClearSelection(TRUE, None, None)
               ELSE /\ cs_returned' = None
                    /\ cs_event' = NoEvent
                    /\ UNCHANGED cs_selected_card_id
                    /\ cs_selected_cards' =
                          IF ~enabled /\ Cardinality(cs_selected_cards) > 1
                          THEN (IF Truthy(cs_selected_card_id)
                                THEN {cs_selected_card_id} ELSE {})
                          ELSE cs_selected_cards

vars == <<ycVars, apiVars, coVars, artVars, libVars, wkVars, mqVars, upVars, dcVars, tgVars, awVars, pkVars, nfVars, mcVars, csVars>>

Init == YcInit /\ ApiInit /\ CoInit /\ ArtInit /\ LibInit /\ WkInit /\ MqInit /\ UpInit /\ DcInit /\ TgInit /\ AwInit /\ PkInit /\ NfInit /\ McInit /\ CsInit


(***************************************************************************)
(* SpecPoll: YotoClient's status poll over every payload                   *)
(***************************************************************************)
NextPoll ==
    \/ (\E o \in StartOutcomes : YotoClient_start(o))
          /\ UNCHANGED <<apiVars, coVars, artVars, libVars, wkVars, mqVars, upVars, dcVars, tgVars, awVars, pkVars, nfVars, mcVars, csVars>>
    \/ (\E r \in Responses(Payloads) : YotoClient_refresh_device_state_get("user", r))
          /\ UNCHANGED <<apiVars, coVars, artVars, libVars, wkVars, mqVars, upVars, dcVars, tgVars, awVars, pkVars, nfVars, mcVars, csVars>>
    \/ YotoClient_refresh_device_state_apply /\ UNCHANGED <<apiVars, coVars, artVars, libVars, wkVars, mqVars, upVars, dcVars, tgVars, awVars, pkVars, nfVars, mcVars, csVars>>

SpecPoll == Init /\ [][NextPoll]_vars

\* C1: a field whose key is absent from the applied status payload keeps the
\* value it had before the update, for every field of DeviceState.
C1_AbsentFieldsKept ==
    [][(yc_resp # NoResp /\ yc_resp' = NoResp /\ yc_resp.status = "200")
        => \A f \in Fields :
              yc_resp.data[KeyOf(f)] = Absent
              => StateOf(yc_device_state', Dev)[f] = StateOf(yc_device_state, Dev)[f]]_vars

(***************************************************************************)
(* SpecEvents: YotoClient's MQTT message handler beside the status poll    *)
(***************************************************************************)
NextEvents ==
    \/ YotoClient_start("ok") /\ UNCHANGED <<apiVars, coVars, artVars, libVars, wkVars, mqVars, upVars, dcVars, tgVars, awVars, pkVars, nfVars, mcVars, csVars>>
    \/ (\E cb \in Callbacks : YotoClient_subscribe(cb))
          /\ UNCHANGED <<apiVars, coVars, artVars, libVars, wkVars, mqVars, upVars, dcVars, tgVars, awVars, pkVars, nfVars, mcVars, csVars>>
    \/ (\E m \in Messages : YotoClient_on_mqtt_message(m))
          /\ UNCHANGED <<apiVars, coVars, artVars, libVars, wkVars, mqVars, upVars, dcVars, tgVars, awVars, pkVars, nfVars, mcVars, csVars>>
    \/ (\E r \in Responses({MsgPlaying, MsgPaused, EmptyPayload}) :
          YotoClient_refresh_device_state_get("user", r))
          /\ UNCHANGED <<apiVars, coVars, artVars, libVars, wkVars, mqVars, upVars, dcVars, tgVars, awVars, pkVars, nfVars, mcVars, csVars>>
    \/ YotoClient_refresh_device_state_apply /\ UNCHANGED <<apiVars, coVars, artVars, libVars, wkVars, mqVars, upVars, dcVars, tgVars, awVars, pkVars, nfVars, mcVars, csVars>>

SpecEvents == Init /\ [][NextEvents]_vars

Handled(m) == yc_events' = Append(yc_events, [raw |-> "json", data |-> m])

\* C2: the events message {"playbackStatus":"playing","cardId":"abc123"}
\* handled on a default state stores playing/abc123, and a following
\* {"playbackStatus":"paused"} stores paused and keeps card abc123.
C2_EventsStored ==
    [][/\ (Handled(MsgPlaying) /\ StateOf(yc_device_state, Dev) = DeviceState)
            => /\ StateOf(yc_device_state', Dev).playback_status = "playing"
               /\ StateOf(yc_device_state', Dev).card_id = CardA
       /\ (Handled(MsgPaused) /\ StateOf(yc_device_state, Dev).card_id = CardA)
            => /\ StateOf(yc_device_state', Dev).playback_status = "paused"
               /\ StateOf(yc_device_state', Dev).card_id = CardA]_vars

(***************************************************************************)
(* SpecMirror: YotoAPIClient mirroring the manager's player                *)
(***************************************************************************)
\* The players the manager reports in SpecMirror.
PlayersMirror ==
    {[Player EXCEPT !.card_id = c, !.playback_status = st, !.is_playing = pl,
                    !.chapter_title = ch, !.track_title = tr] :
        c \in {None, CardA, "none"}, st \in {None, "playing", "paused"},
        pl \in BOOLEAN, ch \in {None, "Chapter One"}, tr \in {None, "Track One"}}

NextMirror ==
    \/ (\E o \in AuthOutcomes, p \in PlayersMirror : YotoAPIClient_authenticate(o, p))
          /\ UNCHANGED <<ycVars, coVars, artVars, libVars, wkVars, mqVars, upVars, dcVars, tgVars, awVars, pkVars, nfVars, mcVars, csVars>>
    \/ (\E p \in PlayersMirror : YotoAPIClient_on_event(p, -1))
          /\ UNCHANGED <<ycVars, coVars, artVars, libVars, wkVars, mqVars, upVars, dcVars, tgVars, awVars, pkVars, nfVars, mcVars, csVars>>
    \/ (\E p \in PlayersMirror : YotoAPIClient_refresh_state(p))
          /\ UNCHANGED <<ycVars, coVars, artVars, libVars, wkVars, mqVars, upVars, dcVars, tgVars, awVars, pkVars, nfVars, mcVars, csVars>>

SpecMirror == Init /\ [][NextMirror]_vars

\* C3: whenever the update applied last carried the card id "none", the
\* active card id is None and so are the chapter, track and card titles.
C3_NoneClearsDependents ==
    (/\ api_op.name \in {"authenticate", "on_event", "refresh_state"}
     /\ mgr_connected
     /\ Dev \in DOMAIN mgr_players
     /\ mgr_players[Dev].card_id = "none")
    => /\ api_state.active_card_id = None
       /\ api_state.current_chapter_title = None
       /\ api_state.current_track_title = None
       /\ api_state.current_card_title = None


(***************************************************************************)
(* SpecArt: the artwork cache                                              *)
(***************************************************************************)
NextArt ==
    (\E c \in Cards, url \in {None, "https://art"}, r \in ArtResponses :
        GetOrDownloadArtwork(c, url, r))
    /\ UNCHANGED <<ycVars, apiVars, coVars, libVars, wkVars, mqVars, upVars, dcVars, tgVars, awVars, pkVars, nfVars, mcVars, csVars>>

SpecArt == Init /\ [][NextArt]_vars

\* The last two calls were for the same card with a URL, the first of them
\* finding nothing cached.
TwoCallsSameCard ==
    /\ art_prev.card # None
    /\ art_last.card = art_prev.card
    /\ ~art_prev.cached
    /\ Truthy(art_prev.url) /\ Truthy(art_last.url)

KeysCmd == {<<>>} \cup {ZFill2(Str(i)) : i \in 1..(MaxChapters + 2)}

\* The players the manager reports in SpecCmd through events ...
PlayersCmd ==
    {[Player EXCEPT !.card_id = c, !.chapter_key = k, !.track_key = t] :
        c \in {None, CardA}, k \in KeysCmd, t \in {<<>>, <<"0", "2">>}}

\* ... and through the poll that follows a command.
PlayersPolled ==
    {[Player EXCEPT !.card_id = CardA, !.chapter_key = k, !.playback_status = "playing"] :
        k \in {ZFill2(Str(1)), ZFill2(Str(MaxChapters))}}

DetailOutcomes == (-1)..MaxChapters

NextCmd ==
    \/ (\E o \in AuthOutcomes, p \in PlayersCmd : YotoAPIClient_authenticate(o, p))
          /\ UNCHANGED <<ycVars, coVars, artVars, libVars, wkVars, mqVars, upVars, dcVars, tgVars, awVars, pkVars, nfVars, mcVars, csVars>>
    \/ (\E p \in PlayersCmd, n \in DetailOutcomes : YotoAPIClient_on_event(p, n))
          /\ UNCHANGED <<ycVars, coVars, artVars, libVars, wkVars, mqVars, upVars, dcVars, tgVars, awVars, pkVars, nfVars, mcVars, csVars>>
    \/ (\E n \in DetailOutcomes, pub \in {"ok", "raises"}, p \in PlayersPolled :
          YotoAPIClient_next_track("ok", n, pub, p))
          /\ UNCHANGED <<ycVars, coVars, artVars, libVars, wkVars, mqVars, upVars, dcVars, tgVars, awVars, pkVars, nfVars, mcVars, csVars>>
    \/ (\E n \in DetailOutcomes, pub \in {"ok", "raises"}, p \in PlayersPolled :
          YotoAPIClient_previous_track("ok", n, pub, p))
          /\ UNCHANGED <<ycVars, coVars, artVars, libVars, wkVars, mqVars, upVars, dcVars, tgVars, awVars, pkVars, nfVars, mcVars, csVars>>

SpecCmd == Init /\ [][NextCmd]_vars

\* The step is the track command verb, issued for a player with a card
\* whose chapter list (as the command reads it) has the player's current
\* key at position pos (1 = first, 0 = last).
TrackCommandAt(verb, first) ==
    /\ api_op'.name = verb
    /\ api_manager # None
    /\ Dev \in DOMAIN mgr_players
    /\ mgr_players[Dev].card_id = CardA
    /\ CardA \in DOMAIN mgr_library'
    /\ mgr_library'[CardA].chapters # <<>>
    /\ LET chapters == mgr_library'[CardA].chapters
       IN CurrentKey(mgr_players[Dev]) =
             chapters[IF first THEN 1 ELSE Len(chapters)]

ConnOutcomes == {"ok", "fail"}

NextConn ==
    \/ (\E o \in AuthOutcomes, p \in PlayersPolled : YotoAPIClient_authenticate(o, p))
          /\ UNCHANGED <<ycVars, coVars, artVars, libVars, wkVars, mqVars, upVars, dcVars, tgVars, awVars, pkVars, nfVars, mcVars, csVars>>
    \/ Manager_disconnected /\ UNCHANGED <<ycVars, coVars, artVars, libVars, wkVars, mqVars, upVars, dcVars, tgVars, awVars, pkVars, nfVars, mcVars, csVars>>
    \/ (\E ch \in 1..MaxChapters, conn \in ConnOutcomes, pub \in {"ok", "raises"},
           p \in PlayersPolled :
          YotoAPIClient_play_card(CardA, ch, conn, pub, p))
          /\ UNCHANGED <<ycVars, coVars, artVars, libVars, wkVars, mqVars, upVars, dcVars, tgVars, awVars, pkVars, nfVars, mcVars, csVars>>
    \/ (\E conn \in ConnOutcomes, n \in {-1, MaxChapters}, p \in PlayersPolled :
          YotoAPIClient_next_track(conn, n, "ok", p))
          /\ UNCHANGED <<ycVars, coVars, artVars, libVars, wkVars, mqVars, upVars, dcVars, tgVars, awVars, pkVars, nfVars, mcVars, csVars>>
    \/ YotoAPIClient_close /\ UNCHANGED <<ycVars, coVars, artVars, libVars, wkVars, mqVars, upVars, dcVars, tgVars, awVars, pkVars, nfVars, mcVars, csVars>>

SpecConn == Init /\ [][NextConn]_vars

\* C6: once MaxConnects connect attempts in a row have failed, no operation
\* makes another connect attempt while the client is not restarted.
C6_ConnectAttemptsBounded ==
    [][(api_failed = MaxConnects /\ api_manager # None)
        => ~api_op'.reconnect]_vars


(***************************************************************************)
(* SpecPlayCard: play_card / play of the three clients                     *)
(***************************************************************************)
PlayChapters == (1..MaxChapters) \cup {12}

\* The player the manager reports once the card plays.
PlayerPlaying ==
    [Player EXCEPT !.card_id = CardA, !.chapter_key = <<"0", "1">>,
                   !.playback_status = "playing"]

NextPlayCard ==
    \/ (\E o \in AuthOutcomes : YotoAPIClient_authenticate(o, PlayerPlaying))
          /\ UNCHANGED <<ycVars, coVars, artVars, libVars, wkVars, mqVars, upVars, dcVars, tgVars, awVars, pkVars, nfVars, mcVars, csVars>>
    \/ (\E ch \in PlayChapters, conn \in ConnOutcomes, pub \in {"ok", "raises"} :
          YotoAPIClient_play_card(CardA, ch, conn, pub, PlayerPlaying))
          /\ UNCHANGED <<ycVars, coVars, artVars, libVars, wkVars, mqVars, upVars, dcVars, tgVars, awVars, pkVars, nfVars, mcVars, csVars>>
    \/ (\E o \in AuthOutcomes : YotoCoordinator_start(o, PlayerPlaying))
          /\ UNCHANGED <<ycVars, apiVars, artVars, libVars, wkVars, mqVars, upVars, dcVars, tgVars, awVars, pkVars, nfVars, mcVars, csVars>>
    \/ (\E ch \in PlayChapters, pub \in {"ok", "raises"} :
          YotoCoordinator_play_card(CardA, ch, pub))
          /\ UNCHANGED <<ycVars, apiVars, artVars, libVars, wkVars, mqVars, upVars, dcVars, tgVars, awVars, pkVars, nfVars, mcVars, csVars>>
    \/ (\E o \in {"ok", "mqtt_failed"} : YotoClient_start(o))
          /\ UNCHANGED <<apiVars, coVars, artVars, libVars, wkVars, mqVars, upVars, dcVars, tgVars, awVars, pkVars, nfVars, mcVars, csVars>>
    \/ YotoClient_get_library("ok", "image/png")
          /\ UNCHANGED <<apiVars, coVars, artVars, libVars, wkVars, mqVars, upVars, dcVars, tgVars, awVars, pkVars, nfVars, mcVars, csVars>>
    \/ (\E pub \in {"ok", "raises"} : YotoClient_play(CardA, pub))
          /\ UNCHANGED <<apiVars, coVars, artVars, libVars, wkVars, mqVars, upVars, dcVars, tgVars, awVars, pkVars, nfVars, mcVars, csVars>>

SpecPlayCard == Init /\ [][NextPlayCard]_vars

\* The last operation of YotoAPIClient was play_card on a resolvable device
ApiPlayedCard ==
    /\ api_op.name = "play_card"
    /\ api_manager # None
    /\ ResolveDeviceId(env_device_id, api_manager, mgr_players) # None

\* The last operation of YotoCoordinator was play_card on a resolvable device
CoPlayedCard ==
    /\ co_op = "play_card"
    /\ co_manager # None
    /\ ResolveDeviceId(co_device_id, co_manager, co_players) # None

\* The last operation of YotoClient was play of a library card on a selected,
\* connected device
YcPlayedCard ==
    /\ yc_op = "play"
    /\ yc_device_id # None
    /\ CardA \in yc_library
    /\ yc_mqtt_client # None /\ yc_mqtt_connected

NextLife ==
    \/ (\E o \in StartOutcomes : YotoClient_start(o))
          /\ UNCHANGED <<apiVars, coVars, artVars, libVars, wkVars, mqVars, upVars, dcVars, tgVars, awVars, pkVars, nfVars, mcVars, csVars>>
    \/ (\E o \in {"refreshed", "kept", "error"} : YotoClient_refresh_loop(o))
          /\ UNCHANGED <<apiVars, coVars, artVars, libVars, wkVars, mqVars, upVars, dcVars, tgVars, awVars, pkVars, nfVars, mcVars, csVars>>
    \/ (\E r \in Responses({EmptyPayload}) :
          YotoClient_refresh_device_state_get("loop", r))
          /\ UNCHANGED <<apiVars, coVars, artVars, libVars, wkVars, mqVars, upVars, dcVars, tgVars, awVars, pkVars, nfVars, mcVars, csVars>>
    \/ YotoClient_refresh_device_state_apply /\ UNCHANGED <<apiVars, coVars, artVars, libVars, wkVars, mqVars, upVars, dcVars, tgVars, awVars, pkVars, nfVars, mcVars, csVars>>
    \/ YotoClient_stop /\ UNCHANGED <<apiVars, coVars, artVars, libVars, wkVars, mqVars, upVars, dcVars, tgVars, awVars, pkVars, nfVars, mcVars, csVars>>
    \/ (\E o \in AuthOutcomes : YotoAPIClient_authenticate(o, PlayerPlaying))
          /\ UNCHANGED <<ycVars, coVars, artVars, libVars, wkVars, mqVars, upVars, dcVars, tgVars, awVars, pkVars, nfVars, mcVars, csVars>>
    \/ YotoAPIClient_close /\ UNCHANGED <<ycVars, coVars, artVars, libVars, wkVars, mqVars, upVars, dcVars, tgVars, awVars, pkVars, nfVars, mcVars, csVars>>
    \/ (\E o \in AuthOutcomes : YotoCoordinator_start(o, PlayerPlaying))
          /\ UNCHANGED <<ycVars, apiVars, artVars, libVars, wkVars, mqVars, upVars, dcVars, tgVars, awVars, pkVars, nfVars, mcVars, csVars>>
    \/ (\E o \in {"ok", "error"} : YotoCoordinator_update_loop(o, PlayerPlaying))
          /\ UNCHANGED <<ycVars, apiVars, artVars, libVars, wkVars, mqVars, upVars, dcVars, tgVars, awVars, pkVars, nfVars, mcVars, csVars>>
    \/ YotoCoordinator_stop /\ UNCHANGED <<ycVars, apiVars, artVars, libVars, wkVars, mqVars, upVars, dcVars, tgVars, awVars, pkVars, nfVars, mcVars, csVars>>

SpecLife == Init /\ [][NextLife]_vars

\* C7: stop()/close() on a client on which nothing was called yet does not
\* raise and leaves no manager, no MQTT client and no running task.
C7_StopOnFreshClient ==
    [][/\ (YcInit /\ yc_op' = "stop")
            => /\ yc_raised' = None
               /\ yc_mqtt_client' = None /\ ~yc_mqtt_connected'
               /\ yc_refresh_task' = None /\ yc_state_task' = None
               /\ yc_session_closed'
       /\ (ApiInit /\ api_op'.name = "close")
            => /\ api_raised' = None
               /\ api_manager' = None /\ ~mgr_connected'
       /\ (CoInit /\ co_op' = "stop")
            => /\ co_raised' = None
               /\ co_manager' = None /\ ~co_connected'
               /\ co_task' = None]_vars

C7_Witness ==
    /\ yc_op = "stop" /\ yc_token_data = None /\ yc_session_closed
    /\ yc_raised = None /\ yc_mqtt_client = None
    /\ yc_refresh_task = None /\ yc_state_task = None
    /\ api_op.name = "close" /\ api_manager = None /\ api_connects = 0
    /\ co_op = "stop" /\ co_manager = None /\ co_task = None /\ co_players = <<>>

\* C9: stop() on a started client returns without raising with both tasks
\* cancelled and the MQTT client closed, and a second stop() does not raise
\* and changes nothing; YotoCoordinator.stop() likewise for its one task.
C9_StopCancelsAndCloses ==
    [][/\ (yc_refresh_task = "running" /\ yc_state_task = "running" /\ yc_op' = "stop")
            => /\ yc_raised' = None
               /\ yc_refresh_task' = "cancelled" /\ yc_state_task' = "cancelled"
               /\ yc_mqtt_client' = None /\ ~yc_mqtt_connected'
       /\ (yc_op = "stop" /\ yc_op' = "stop")
            => /\ yc_raised' = None
               /\ yc_refresh_task' = yc_refresh_task
               /\ yc_state_task' = yc_state_task
               /\ yc_mqtt_client' = yc_mqtt_client
       /\ (co_task = "running" /\ co_op' = "stop")
            => /\ co_raised' = None
               /\ co_task' = "cancelled"
               /\ co_manager' = None /\ ~co_connected'
       /\ (co_op = "stop" /\ co_op' = "stop")
            => /\ co_raised' = None
               /\ co_task' = co_task /\ co_manager' = co_manager]_vars


(***************************************************************************)
(* SpecNotify: callbacks are registered and state changes are notified     *)
(***************************************************************************)
NextNotify ==
    \/ YotoClient_start("ok") /\ UNCHANGED <<apiVars, coVars, artVars, libVars, wkVars, mqVars, upVars, dcVars, tgVars, awVars, pkVars, nfVars, mcVars, csVars>>
    \/ (\E cb \in Callbacks : YotoClient_subscribe(cb))
          /\ UNCHANGED <<apiVars, coVars, artVars, libVars, wkVars, mqVars, upVars, dcVars, tgVars, awVars, pkVars, nfVars, mcVars, csVars>>
    \/ YotoClient_refresh_device_state_get("user", [status |-> "200", data |-> MsgPlaying])
          /\ UNCHANGED <<apiVars, coVars, artVars, libVars, wkVars, mqVars, upVars, dcVars, tgVars, awVars, pkVars, nfVars, mcVars, csVars>>
    \/ YotoClient_refresh_device_state_apply /\ UNCHANGED <<apiVars, coVars, artVars, libVars, wkVars, mqVars, upVars, dcVars, tgVars, awVars, pkVars, nfVars, mcVars, csVars>>
    \/ YotoAPIClient_authenticate("ok", Player) /\ UNCHANGED <<ycVars, coVars, artVars, libVars, wkVars, mqVars, upVars, dcVars, tgVars, awVars, pkVars, nfVars, mcVars, csVars>>
    \/ (\E cb \in Callbacks : YotoAPIClient_add_state_callback(cb))
          /\ UNCHANGED <<ycVars, coVars, artVars, libVars, wkVars, mqVars, upVars, dcVars, tgVars, awVars, pkVars, nfVars, mcVars, csVars>>
    \/ YotoAPIClient_on_event(PlayerPlaying, -1)
          /\ UNCHANGED <<ycVars, coVars, artVars, libVars, wkVars, mqVars, upVars, dcVars, tgVars, awVars, pkVars, nfVars, mcVars, csVars>>
    \/ YotoCoordinator_start("ok", Player) /\ UNCHANGED <<ycVars, apiVars, artVars, libVars, wkVars, mqVars, upVars, dcVars, tgVars, awVars, pkVars, nfVars, mcVars, csVars>>
    \/ (\E cb \in Callbacks : YotoCoordinator_add_listener(cb))
          /\ UNCHANGED <<ycVars, apiVars, artVars, libVars, wkVars, mqVars, upVars, dcVars, tgVars, awVars, pkVars, nfVars, mcVars, csVars>>
    \/ YotoCoordinator_on_event(PlayerPlaying)
          /\ UNCHANGED <<ycVars, apiVars, artVars, libVars, wkVars, mqVars, upVars, dcVars, tgVars, awVars, pkVars, nfVars, mcVars, csVars>>

SpecNotify == Init /\ [][NextNotify]_vars

\* C10: a notification invokes every registered callback, in order, whether
\* or not one of them raises, and the operation that notified raises
\* nothing.
C10_RaisingListenerContained ==
    [][/\ (yc_resp # NoResp /\ yc_resp.status = "200" /\ yc_resp' = NoResp)
            => yc_invoked' = yc_callbacks /\ yc_raised' = None
       /\ api_op'.name = "on_event"
            => api_invoked' = api_state_callbacks /\ api_raised' = None
       /\ co_op' = "on_event"
            => co_invoked' = co_callbacks /\ co_raised' = None]_vars

C10_Witness ==
    /\ yc_op = "refresh_device_state" /\ yc_resp = NoResp
    /\ yc_callbacks = <<"cb_raises", "cb_ok">> /\ yc_invoked = yc_callbacks
    /\ api_op.name = "on_event"
    /\ api_state_callbacks = <<"cb_raises", "cb_ok">>
    /\ api_invoked = api_state_callbacks
    /\ co_op = "on_event"
    /\ co_callbacks = <<"cb_raises", "cb_ok">> /\ co_invoked = co_callbacks


(***************************************************************************)
(* SpecUpdates: every operation of YotoAPIClient and YotoCoordinator that  *)
(* applies the manager's player to the mirrored state                      *)
(***************************************************************************)
NextUpdates ==
    \/ YotoAPIClient_authenticate("ok", Player) /\ UNCHANGED <<ycVars, coVars, artVars, libVars, wkVars, mqVars, upVars, dcVars, tgVars, awVars, pkVars, nfVars, mcVars, csVars>>
    \/ (\E cb \in Callbacks : YotoAPIClient_add_state_callback(cb))
          /\ UNCHANGED <<ycVars, coVars, artVars, libVars, wkVars, mqVars, upVars, dcVars, tgVars, awVars, pkVars, nfVars, mcVars, csVars>>
    \/ (\E p \in {Player, PlayerPlaying} : YotoAPIClient_on_event(p, -1))
          /\ UNCHANGED <<ycVars, coVars, artVars, libVars, wkVars, mqVars, upVars, dcVars, tgVars, awVars, pkVars, nfVars, mcVars, csVars>>
    \/ (\E p \in {Player, PlayerPlaying} : YotoAPIClient_refresh_state(p))
          /\ UNCHANGED <<ycVars, coVars, artVars, libVars, wkVars, mqVars, upVars, dcVars, tgVars, awVars, pkVars, nfVars, mcVars, csVars>>
    \/ (\E pub \in {"ok", "raises"} :
          YotoAPIClient_play_card(CardA, 1, "ok", pub, PlayerPlaying))
          /\ UNCHANGED <<ycVars, coVars, artVars, libVars, wkVars, mqVars, upVars, dcVars, tgVars, awVars, pkVars, nfVars, mcVars, csVars>>
    \/ YotoCoordinator_start("ok", Player) /\ UNCHANGED <<ycVars, apiVars, artVars, libVars, wkVars, mqVars, upVars, dcVars, tgVars, awVars, pkVars, nfVars, mcVars, csVars>>
    \/ (\E cb \in Callbacks : YotoCoordinator_add_listener(cb))
          /\ UNCHANGED <<ycVars, apiVars, artVars, libVars, wkVars, mqVars, upVars, dcVars, tgVars, awVars, pkVars, nfVars, mcVars, csVars>>
    \/ (\E o \in {"ok", "error"}, p \in {Player, PlayerPlaying} :
          YotoCoordinator_update_loop(o, p))
          /\ UNCHANGED <<ycVars, apiVars, artVars, libVars, wkVars, mqVars, upVars, dcVars, tgVars, awVars, pkVars, nfVars, mcVars, csVars>>
    \/ (\E p \in {Player, PlayerPlaying} : YotoCoordinator_on_event(p))
          /\ UNCHANGED <<ycVars, apiVars, artVars, libVars, wkVars, mqVars, upVars, dcVars, tgVars, awVars, pkVars, nfVars, mcVars, csVars>>

SpecUpdates == Init /\ [][NextUpdates]_vars

\* The step is operation name of YotoAPIClient and it applied the player
\* of the target device to the mirrored state.
ApiApplied(name) ==
    /\ api_op'.name = name
    /\ api_manager' # None
    /\ TargetPlayer(env_device_id, api_manager', mgr_players') # None
    /\ (name = "play_card" => api_polls' = 1)

\* C11: the event callback, the poll after a command, the periodic poll and
\* refresh_state each invoke every registered listener in the step that
\* applies the update.
C11_UpdateThenNotify ==
    [][/\ (ApiApplied("on_event") \/ ApiApplied("play_card")
              \/ ApiApplied("refresh_state"))
            => api_invoked' = api_state_callbacks'
       /\ (co_op' \in {"on_event", "update_loop"} /\ co_state' # co_state)
            => co_invoked' = co_callbacks']_vars


(***************************************************************************)
(* SpecAlias: consumers of the device state. cb(state) passes the object   *)
(* stored in device_state[device_id], and api.device_state is the object   *)
(* the client updates; DeviceState is a mutable dataclass.                 *)
(***************************************************************************)
\* What refresh_device_state hands to a callback: the stored object itself.
HandedState(device_id) == [ref |-> device_id]

\* A callback that was handed the state assigns one of its fields.
Consumer_writes(f, v) ==
    /\ yc_invoked # <<>>
    /\ yc_device_id \in DOMAIN yc_device_state
    /\ yc_resp = NoResp
    /\ yc_op' = "consumer_write"
    /\ yc_device_state' =
          [yc_device_state EXCEPT ![HandedState(yc_device_id).ref][f] = v]
    /\ UNCHANGED <<yc_art_cache, yc_art_path, yc_library_call,
                   yc_now, yc_token_expires_at, yc_refresh_due, yc_sent,
                   yc_library, yc_published, yc_token_data, yc_devices,
                   yc_device_id, yc_mqtt_client, yc_mqtt_connected,
                   yc_refresh_task, yc_state_task, yc_session_closed,
                   yc_callbacks, yc_resp, yc_invoked, yc_events, yc_raised>>

\* A reader of YotoAPIClient.device_state assigns a field of what it read.
ApiConsumer_writes(f, v) ==
    /\ api_manager # None
    /\ api_op' = Op("consumer_write", None, 0, FALSE)
    /\ api_device_state' = [api_device_state EXCEPT ![f] = v]
    /\ UNCHANGED <<env_device_id, api_manager, mgr_players, mgr_library,
                   mgr_connected, api_state, api_state_callbacks, api_invoked,
                   api_published, api_polls, api_connects, api_failed,
                   api_library, api_raised>>

ConsumerValues == {"playing", "paused"}

NextAlias ==
    \/ YotoClient_start("ok") /\ UNCHANGED <<apiVars, coVars, artVars, libVars, wkVars, mqVars, upVars, dcVars, tgVars, awVars, pkVars, nfVars, mcVars, csVars>>
    \/ (\E cb \in Callbacks : YotoClient_subscribe(cb))
          /\ UNCHANGED <<apiVars, coVars, artVars, libVars, wkVars, mqVars, upVars, dcVars, tgVars, awVars, pkVars, nfVars, mcVars, csVars>>
    \/ (\E r \in Responses({MsgPlaying, MsgPaused}) :
          YotoClient_refresh_device_state_get("user", r))
          /\ UNCHANGED <<apiVars, coVars, artVars, libVars, wkVars, mqVars, upVars, dcVars, tgVars, awVars, pkVars, nfVars, mcVars, csVars>>
    \/ YotoClient_refresh_device_state_apply /\ UNCHANGED <<apiVars, coVars, artVars, libVars, wkVars, mqVars, upVars, dcVars, tgVars, awVars, pkVars, nfVars, mcVars, csVars>>
    \/ (\E f \in {"playback_status", "card_id"}, v \in ConsumerValues :
          Consumer_writes(f, v))
          /\ UNCHANGED <<apiVars, coVars, artVars, libVars, wkVars, mqVars, upVars, dcVars, tgVars, awVars, pkVars, nfVars, mcVars, csVars>>
    \/ (\E p \in {Player, PlayerPlaying} : YotoAPIClient_authenticate("ok", p))
          /\ UNCHANGED <<ycVars, coVars, artVars, libVars, wkVars, mqVars, upVars, dcVars, tgVars, awVars, pkVars, nfVars, mcVars, csVars>>
    \/ (\E f \in {"playback_status", "card_id"}, v \in ConsumerValues :
          ApiConsumer_writes(f, v))
          /\ UNCHANGED <<ycVars, coVars, artVars, libVars, wkVars, mqVars, upVars, dcVars, tgVars, awVars, pkVars, nfVars, mcVars, csVars>>

SpecAlias == Init /\ [][NextAlias]_vars

\* C12: a consumer that modifies the state object it was handed does not
\* change the state the client holds.
C12_ConsumerGetsCopy ==
    [][/\ yc_op' = "consumer_write" => yc_device_state' = yc_device_state
       /\ api_op'.name = "consumer_write" => api_device_state' = api_device_state]_vars


(***************************************************************************)
(* SpecCommands: the playback commands of YotoAPIClient and YotoClient     *)
(***************************************************************************)
\* The players the manager holds: online or not, with or without a card.
PlayersCommands ==
    {[Player EXCEPT !.online = o, !.card_id = c, !.chapter_key = <<"0", "1">>] :
        o \in BOOLEAN, c \in {None, CardA}}

NextCommands ==
    \/ (\E o \in AuthOutcomes : YotoAPIClient_authenticate(o, PlayerPlaying))
          /\ UNCHANGED <<ycVars, coVars, artVars, libVars, wkVars, mqVars, upVars, dcVars, tgVars, awVars, pkVars, nfVars, mcVars, csVars>>
    \/ (\E verb \in ApiVerbs : YotoAPIClient_command(verb, "ok", "raises"))
          /\ UNCHANGED <<ycVars, coVars, artVars, libVars, wkVars, mqVars, upVars, dcVars, tgVars, awVars, pkVars, nfVars, mcVars, csVars>>
    \/ (\E pub \in {"ok", "raises"} :
          YotoAPIClient_play_card(CardA, 1, "ok", pub, PlayerPlaying))
          /\ UNCHANGED <<ycVars, coVars, artVars, libVars, wkVars, mqVars, upVars, dcVars, tgVars, awVars, pkVars, nfVars, mcVars, csVars>>
    \/ (\E pub \in {"ok", "raises"} :
          YotoAPIClient_next_track("ok", MaxChapters, pub, PlayerPlaying))
          /\ UNCHANGED <<ycVars, coVars, artVars, libVars, wkVars, mqVars, upVars, dcVars, tgVars, awVars, pkVars, nfVars, mcVars, csVars>>
    \/ (\E pub \in {"ok", "raises"} :
          YotoAPIClient_previous_track("ok", MaxChapters, pub, PlayerPlaying))
          /\ UNCHANGED <<ycVars, coVars, artVars, libVars, wkVars, mqVars, upVars, dcVars, tgVars, awVars, pkVars, nfVars, mcVars, csVars>>
    \/ (\E o \in {"ok", "no_devices", "mqtt_failed"} : YotoClient_start(o))
          /\ UNCHANGED <<apiVars, coVars, artVars, libVars, wkVars, mqVars, upVars, dcVars, tgVars, awVars, pkVars, nfVars, mcVars, csVars>>
    \/ YotoClient_get_library("ok", "image/png") /\ UNCHANGED <<apiVars, coVars, artVars, libVars, wkVars, mqVars, upVars, dcVars, tgVars, awVars, pkVars, nfVars, mcVars, csVars>>
    \/ (\E pub \in {"ok", "raises"} : YotoClient_play(CardA, pub))
          /\ UNCHANGED <<apiVars, coVars, artVars, libVars, wkVars, mqVars, upVars, dcVars, tgVars, awVars, pkVars, nfVars, mcVars, csVars>>
    \/ (\E verb \in YcVerbs, pub \in {"ok", "raises"} : YotoClient_command(verb, pub))
          /\ UNCHANGED <<apiVars, coVars, artVars, libVars, wkVars, mqVars, upVars, dcVars, tgVars, awVars, pkVars, nfVars, mcVars, csVars>>

SpecCommands == Init /\ [][NextCommands]_vars

ApiCommandNames == ApiVerbs \cup {"play_card", "next_track", "previous_track"}

\* C13: a playback command issued while no target device can be resolved
\* publishes nothing and raises nothing.
C13_NoDeviceIsNoOp ==
    [][/\ (/\ api_op'.name \in ApiCommandNames
           /\ ResolveDeviceId(env_device_id, api_manager, mgr_players) = None)
            => api_published' = <<>> /\ api_raised' = None
       /\ (yc_op' \in YcVerbs \cup {"play"} /\ yc_device_id = None)
            => yc_published' = <<>> /\ yc_raised' = None]_vars

\* C14: a command whose publish fails (the manager call raises, or MQTT
\* is down when YotoClient publishes) raises nothing to its caller.
C14_PublishFailureReported ==
    [][/\ (/\ api_op'.name \in ApiCommandNames
           /\ api_published' # <<>>
           /\ ~api_published'[1].returned)
            => api_raised' = None
       /\ (/\ yc_op' \in YcVerbs
           /\ yc_device_id # None
           /\ ~(yc_mqtt_client # None /\ yc_mqtt_connected))
            => yc_published' = <<>> /\ yc_raised' = None]_vars


(***************************************************************************)
(* SpecPlayGuard: play / pause / resume / stop of YotoAPIClient and        *)
(* YotoCoordinator for players that are offline or hold no card            *)
(***************************************************************************)
NextPlayGuard ==
    \/ (\E o \in {"ok", "auth_error"}, p \in PlayersCommands :
          YotoAPIClient_authenticate(o, p))
          /\ UNCHANGED <<ycVars, coVars, artVars, libVars, wkVars, mqVars, upVars, dcVars, tgVars, awVars, pkVars, nfVars, mcVars, csVars>>
    \/ (\E verb \in ApiVerbs, pub \in {"ok", "raises"} :
          YotoAPIClient_command(verb, "ok", pub))
          /\ UNCHANGED <<ycVars, coVars, artVars, libVars, wkVars, mqVars, upVars, dcVars, tgVars, awVars, pkVars, nfVars, mcVars, csVars>>
    \/ (\E o \in {"ok", "auth_error"}, p \in PlayersCommands :
          YotoCoordinator_start(o, p))
          /\ UNCHANGED <<ycVars, apiVars, artVars, libVars, wkVars, mqVars, upVars, dcVars, tgVars, awVars, pkVars, nfVars, mcVars, csVars>>
    \/ (\E verb \in CoVerbs, pub \in {"ok", "raises"} :
          YotoCoordinator_command(verb, pub))
          /\ UNCHANGED <<ycVars, apiVars, artVars, libVars, wkVars, mqVars, upVars, dcVars, tgVars, awVars, pkVars, nfVars, mcVars, csVars>>

SpecPlayGuard == Init /\ [][NextPlayGuard]_vars

\* C15: play publishes nothing for a player that is offline or holds no
\* card; pause, resume and stop publish their one command for a known
\* device whatever its online flag and card.
C15_PlayGuardedOthersSent ==
    [][/\ (/\ api_op'.name \in ApiVerbs
           /\ api_manager # None
           /\ Dev \in DOMAIN mgr_players)
            => IF PlayRefused(api_op'.name, mgr_players[Dev])
               THEN api_published' = <<>>
               ELSE Len(api_published') = 1
       /\ (/\ co_op' \in CoVerbs
           /\ co_manager # None
           /\ Dev \in DOMAIN co_players)
            => IF PlayRefused(co_op', co_players[Dev])
               THEN co_published' = <<>>
               ELSE Len(co_published') = 1]_vars

----------------------------------------------------------------------------
\* Token lifetime of the YotoClient on the clock: a login whose token lives
\* expires_in seconds, the wake-ups of _refresh_loop, and status polls by the
\* caller and by _state_loop.

ExpiresIn == {TickSeconds, RefreshSleep + TickSeconds, LongLived}

NextToken ==
    \/ (\E o \in {"ok", "login_failed"}, e \in ExpiresIn : YotoClient_login(o, e))
          /\ UNCHANGED <<apiVars, coVars, artVars, libVars, wkVars, mqVars, upVars, dcVars, tgVars, awVars, pkVars, nfVars, mcVars, csVars>>
    \/ Clock_tick /\ UNCHANGED <<apiVars, coVars, artVars, libVars, wkVars, mqVars, upVars, dcVars, tgVars, awVars, pkVars, nfVars, mcVars, csVars>>
    \/ (\E o \in RefreshOutcomes, e \in ExpiresIn : YotoClient_refresh_wakeup(o, e))
          /\ UNCHANGED <<apiVars, coVars, artVars, libVars, wkVars, mqVars, upVars, dcVars, tgVars, awVars, pkVars, nfVars, mcVars, csVars>>
    \/ (\E c \in {"user", "loop"}, r \in Responses({MsgPlaying}) :
          YotoClient_refresh_device_state_get(c, r))
          /\ UNCHANGED <<apiVars, coVars, artVars, libVars, wkVars, mqVars, upVars, dcVars, tgVars, awVars, pkVars, nfVars, mcVars, csVars>>
    \/ YotoClient_refresh_device_state_apply /\ UNCHANGED <<apiVars, coVars, artVars, libVars, wkVars, mqVars, upVars, dcVars, tgVars, awVars, pkVars, nfVars, mcVars, csVars>>

SpecToken == Init /\ [][NextToken]_vars

\* C16: no status request leaves with a token that is past its expiry: the
\* token of every request sent was still valid on the clock at that moment.
C16_NoExpiredTokenUsed == yc_sent # "expired"

(***************************************************************************)
(* SpecLibrary: the library cache of YotoAPIClient and YotoCoordinator on  *)
(* the clock, with calls that arrive while a refill is in progress and     *)
(* artwork downloads that succeed.                                         *)
(***************************************************************************)
\* The cards the cloud lists at one update_library call.
LibraryItems == {{}, Cards}

NextLibrary ==
    \/ YotoAPIClient_authenticate("ok", Player)
          /\ UNCHANGED <<ycVars, coVars, artVars, libVars, wkVars, mqVars, upVars, dcVars, tgVars, awVars, pkVars, nfVars, mcVars, csVars>>
    \/ YotoCoordinator_start("ok", Player)
          /\ UNCHANGED <<ycVars, apiVars, artVars, libVars, wkVars, mqVars, upVars, dcVars, tgVars, awVars, pkVars, nfVars, mcVars, csVars>>
    \/ (\E f \in BOOLEAN, o \in {"ok", "raises"}, items \in LibraryItems :
          YotoAPIClient_get_library(f, o, items))
          /\ UNCHANGED <<ycVars, coVars, artVars, wkVars, mqVars, upVars, dcVars, tgVars, awVars, pkVars, nfVars, mcVars, csVars>>
    \/ (\E c \in Cards : YotoAPIClient_get_library_insert(c, "https://art", "image/png"))
          /\ UNCHANGED <<ycVars, coVars, wkVars, mqVars, upVars, dcVars, tgVars, awVars, pkVars, nfVars, mcVars, csVars>>
    \/ (\E f \in BOOLEAN, o \in {"ok", "raises"}, items \in LibraryItems :
          YotoCoordinator_get_library(f, o, items))
          /\ UNCHANGED <<ycVars, apiVars, artVars, wkVars, mqVars, upVars, dcVars, tgVars, awVars, pkVars, nfVars, mcVars, csVars>>
    \/ (\E c \in Cards : YotoCoordinator_get_library_insert(c, "https://art", "image/png"))
          /\ UNCHANGED <<ycVars, apiVars, wkVars, mqVars, upVars, dcVars, tgVars, awVars, pkVars, nfVars, mcVars, csVars>>
    \/ Library_tick /\ UNCHANGED <<ycVars, apiVars, coVars, artVars, wkVars, mqVars, upVars, dcVars, tgVars, awVars, pkVars, nfVars, mcVars, csVars>>

SpecLibrary == Init /\ [][NextLibrary]_vars

\* The step starts a get_library call of the client.
LibraryCallOf(client) ==
    /\ lib_call' # lib_call
    /\ lib_call'.step = "call"
    /\ lib_call'.client = client

\* What C17 asks of a call that finds the cache (library, filled at
\* timestamp) served or refetched.
ServedFromCache(library) ==
    /\ lib_call'.hit /\ ~lib_call'.fetched
    /\ lib_call'.returned = DOMAIN library

C18_ReaderSeesCompleteLibrary ==
    [][/\ (LibraryCallOf("api") /\ lib_call'.hit /\ api_refresh.active)
            => lib_call'.returned \in {api_refresh.old, api_refresh.items}
       /\ (LibraryCallOf("co") /\ lib_call'.hit /\ co_refresh.active)
            => lib_call'.returned \in {co_refresh.old, co_refresh.items}]_vars

(***************************************************************************)
(* SpecChapters: get_card_chapters of YotoAPIClient and YotoCoordinator    *)
(***************************************************************************)
NextChapters ==
    \/ YotoAPIClient_authenticate("ok", Player)
          /\ UNCHANGED <<ycVars, coVars, artVars, libVars, wkVars, mqVars, upVars, dcVars, tgVars, awVars, pkVars, nfVars, mcVars, csVars>>
    \/ YotoCoordinator_start("ok", Player)
          /\ UNCHANGED <<ycVars, apiVars, artVars, libVars, wkVars, mqVars, upVars, dcVars, tgVars, awVars, pkVars, nfVars, mcVars, csVars>>
    \/ (\E c \in Cards, n \in DetailOutcomes : YotoAPIClient_get_card_chapters(c, n))
          /\ UNCHANGED <<ycVars, coVars, artVars, wkVars, mqVars, upVars, dcVars, tgVars, awVars, pkVars, nfVars, mcVars, csVars>>
    \/ (\E c \in Cards, n \in DetailOutcomes : YotoCoordinator_get_card_chapters(c, n))
          /\ UNCHANGED <<ycVars, apiVars, artVars, wkVars, mqVars, upVars, dcVars, tgVars, awVars, pkVars, nfVars, mcVars, csVars>>

SpecChapters == Init /\ [][NextChapters]_vars

\* C19: a get_card_chapters call whose detail request failed is left by an
\* exception, and a call on a client with a manager whose request did not
\* fail returns a list, the empty one for a card without chapters.
C19_FailedDetailFetchRaises ==
    /\ chapters_call.failed => chapters_call.raised # None
    /\ (chapters_call.kind = "list" /\ ~chapters_call.failed)
         => chapters_call.raised = None

(***************************************************************************)
(* SpecListing: the library listings of YotoAPIClient and YotoClient with  *)
(* artwork downloads that fail.                                            *)
(***************************************************************************)
NextListing ==
    \/ YotoAPIClient_authenticate("ok", Player)
          /\ UNCHANGED <<ycVars, coVars, artVars, libVars, wkVars, mqVars, upVars, dcVars, tgVars, awVars, pkVars, nfVars, mcVars, csVars>>
    \/ (\E f \in BOOLEAN, items \in {{CardA}, Cards} :
          YotoAPIClient_get_library(f, "ok", items))
          /\ UNCHANGED <<ycVars, coVars, artVars, wkVars, mqVars, upVars, dcVars, tgVars, awVars, pkVars, nfVars, mcVars, csVars>>
    \/ (\E c \in Cards, r \in {"error", "image/png"} :
          YotoAPIClient_get_library_insert(c, "https://art", r))
          /\ UNCHANGED <<ycVars, coVars, wkVars, mqVars, upVars, dcVars, tgVars, awVars, pkVars, nfVars, mcVars, csVars>>
    \/ YotoClient_start("ok") /\ UNCHANGED <<apiVars, coVars, artVars, libVars, wkVars, mqVars, upVars, dcVars, tgVars, awVars, pkVars, nfVars, mcVars, csVars>>
    \/ (\E o \in {"ok", "no_cover", "error"}, r \in {"error", "image/png", "image/jpeg"} :
          YotoClient_get_library(o, r))
          /\ UNCHANGED <<apiVars, coVars, artVars, libVars, wkVars, mqVars, upVars, dcVars, tgVars, awVars, pkVars, nfVars, mcVars, csVars>>

SpecListing == Init /\ [][NextListing]_vars

\* C20: an artwork download that fails leaves neither the artwork fetch nor
\* the listing with an exception: the card gets no path, and the listing
\* returns every card the library lists.
C20_FailedArtworkNeverRaises ==
    [][/\ (/\ api_refresh.active /\ api_refresh' # api_refresh
           /\ art_last'.fetched = 1 /\ art_last'.result = NoFile)
            => /\ api_raised' = None
               /\ art_last'.card \in DOMAIN api_library'
               /\ api_library'[art_last'.card].art_path = NoFile
       /\ (api_refresh.active /\ ~api_refresh'.active)
            => lib_call'.returned = api_refresh.items
       /\ (yc_op' = "get_library" /\ yc_library_call'.art = "failed")
            => /\ yc_raised' = None
               /\ yc_library_call'.returned = {CardA}]_vars

(***************************************************************************)
(* SpecWorkers: commands of the desktop coordinator running on worker      *)
(* threads of one YotoAPIClient                                            *)
(***************************************************************************)
NextWorkers ==
    \/ (\E o \in {"ok", "connect_error"} : YotoAPIClient_authenticate(o, PlayerPlaying))
          /\ UNCHANGED <<ycVars, coVars, artVars, libVars, wkVars, mqVars, upVars, dcVars, tgVars, awVars, pkVars, nfVars, mcVars, csVars>>
    \/ Manager_disconnected /\ UNCHANGED <<ycVars, coVars, artVars, libVars, wkVars, mqVars, upVars, dcVars, tgVars, awVars, pkVars, nfVars, mcVars, csVars>>
    \/ (\E verb \in {"play", "pause"} : DesktopCoordinator_command(verb))
          /\ UNCHANGED <<ycVars, apiVars, coVars, artVars, libVars, mqVars, upVars, dcVars, tgVars, awVars, pkVars, nfVars, mcVars, csVars>>
    \/ (\E w \in Workers : Worker_ensure_mqtt_connected(w))
          /\ UNCHANGED <<ycVars, coVars, artVars, libVars, mqVars, upVars, dcVars, tgVars, awVars, pkVars, nfVars, mcVars, csVars>>
    \/ (\E w \in Workers, conn \in {"ok", "raises"} : Worker_connect_returns(w, conn))
          /\ UNCHANGED <<ycVars, coVars, artVars, libVars, mqVars, upVars, dcVars, tgVars, awVars, pkVars, nfVars, mcVars, csVars>>
    \/ (\E w \in Workers, pub \in {"ok", "raises"} : Worker_command(w, pub))
          /\ UNCHANGED <<ycVars, coVars, artVars, libVars, mqVars, upVars, dcVars, tgVars, awVars, pkVars, nfVars, mcVars, csVars>>

SpecWorkers == Init /\ [][NextWorkers]_vars

\* C21: the sessions of the client that are live or being connected, the
\* connected one and one per connect_to_events call in progress, are at most
\* one.
C21_AtMostOneSession ==
    Cardinality(Connecting) + (IF mgr_connected THEN 1 ELSE 0) <= 1

\* C24: the manager calls of the commands are attempted in the order in
\* which the commands were issued.
C24_PublishesInIssuanceOrder ==
    \A i, j \in 1..Len(wk_attempted) :
        i < j => wk_attempted[i] < wk_attempted[j]


(***************************************************************************)
(* SpecSession: the connect and disconnect callbacks over every device     *)
(* order, reason code and result pattern                                   *)
(***************************************************************************)
NextSession ==
    \/ (\E order \in DeviceOrders : YotoClient_load_devices(order))
          /\ UNCHANGED <<ycVars, apiVars, coVars, artVars, libVars, wkVars, upVars, dcVars, tgVars, awVars, pkVars, nfVars, mcVars, csVars>>
    \/ (\E rc \in ReasonCodes, failed \in FailurePatterns(4 * Len(mq_devices)) :
            YotoClient_on_mqtt_connect(rc, failed))
          /\ UNCHANGED <<ycVars, apiVars, coVars, artVars, libVars, wkVars, upVars, dcVars, tgVars, awVars, pkVars, nfVars, mcVars, csVars>>
    \/ (\E rc \in ReasonCodes : YotoClient_on_mqtt_disconnect(rc))
          /\ UNCHANGED <<ycVars, apiVars, coVars, artVars, libVars, wkVars, upVars, dcVars, tgVars, awVars, pkVars, nfVars, mcVars, csVars>>

SpecSession == Init /\ [][NextSession]_vars

\* C22: a successful connect callback subscribes to the events, status and
\* response topic of every known device, publishes exactly one probe without
\* payload to the command/events topic of every known device, and issues every
\* subscription before the first probe.
C22_SubscribeAllThenProbeEach ==
    [][(mq_rc' = 0 /\ mq_connected') =>
          /\ \A k \in DOMAIN mq_devices :
                /\ \A t \in {<<"events">>, <<"status">>, <<"response">>} :
                      \E i \in DOMAIN mq_log' :
                          /\ mq_log'[i].op = "subscribe"
                          /\ mq_log'[i].topic = Topic(mq_devices[k], t)
                /\ Cardinality({i \in DOMAIN mq_log' :
                                   /\ mq_log'[i].op = "publish"
                                   /\ mq_log'[i].payload = ""
                                   /\ mq_log'[i].topic =
                                        Topic(mq_devices[k], <<"command", "events">>)}) = 1
          /\ Cardinality({i \in DOMAIN mq_log' : mq_log'[i].op = "publish"})
                = Len(mq_devices)
          /\ \A i, j \in DOMAIN mq_log' :
                (mq_log'[i].op = "subscribe" /\ mq_log'[j].op = "publish") => i < j
    ]_vars

C22_Witness ==
    /\ mq_rc = 0
    /\ mq_connected
    /\ Len(mq_devices) = MaxDevices
    /\ Len(mq_log) = 4 * MaxDevices
    /\ mq_failed # {}


(***************************************************************************)
(* SpecReader: a reader thread against an update in progress               *)
(***************************************************************************)
PlayersUpdate ==
    {PlayerPlaying,
     [Player EXCEPT !.card_id = CardA, !.playback_status = "paused",
                    !.chapter_title = "Chapter One", !.track_title = "Track One",
                    !.track_position = "12", !.track_length = "90"],
     Player}

NextReader ==
    \/ (up_pc = 0 /\ \E p \in PlayersUpdate : YotoAPIClient_authenticate("ok", p))
          /\ UNCHANGED <<ycVars, coVars, artVars, libVars, wkVars, mqVars, upVars, dcVars, tgVars, awVars, pkVars, nfVars, mcVars, csVars>>
    \/ (\E p \in PlayersUpdate : UpdateState_begin(p))
          /\ UNCHANGED <<ycVars, coVars, artVars, libVars, wkVars, mqVars, dcVars, tgVars, awVars, pkVars, nfVars, mcVars, csVars>>
    \/ UpdateState_assign
          /\ UNCHANGED <<ycVars, coVars, artVars, libVars, wkVars, mqVars, dcVars, tgVars, awVars, pkVars, nfVars, mcVars, csVars>>
    \/ Consumer_read
          /\ UNCHANGED <<ycVars, apiVars, coVars, artVars, libVars, wkVars, mqVars, dcVars, tgVars, awVars, pkVars, nfVars, mcVars, csVars>>

SpecReader == Init /\ [][NextReader]_vars

\* C23: what a reader reads while an update is being applied is either the
\* mirrored state from before the update or the mirrored state after it.
C23_ReaderSeesWholeUpdate ==
    up_seen.state \in {up_seen.before, up_seen.after}

\* C25: whenever the mirrored active card id is None, the mirrored chapter
\* title and track title are None as well.
C25_NoCardNoTitles ==
    api_state.active_card_id = None =>
        /\ api_state.current_chapter_title = None
        /\ api_state.current_track_title = None

\* C26: the artwork path of every card the client holds names a file of the
\* artwork cache; a card whose artwork was not fetched has no such path.
C26_ArtPathExists ==
    \A c \in yc_library : yc_art_path[c] \in yc_art_cache


(***************************************************************************)
(* SpecDesktop: the steps of coordinator_test.py in every order            *)
(***************************************************************************)
FieldsWritten ==
    {[playback_status |-> st, active_card_id |-> c, current_card_title |-> t] :
        st \in {"playing", "paused"}, c \in {None, "test123"},
        t \in {None, "Test Card"}}

NextDesktop ==
    \/ (\E cr \in BOOLEAN, o \in AuthOutcomes, p \in {Player, PlayerPlaying} :
            DesktopCoordinator_init(cr, o, p))
          /\ UNCHANGED <<ycVars, apiVars, coVars, artVars, libVars, wkVars, mqVars, upVars, tgVars, awVars, pkVars, nfVars, mcVars, csVars>>
    \/ (\E fields \in FieldsWritten : Test_set_client_fields(fields))
          /\ UNCHANGED <<ycVars, apiVars, coVars, artVars, libVars, wkVars, mqVars, upVars, tgVars, awVars, pkVars, nfVars, mcVars, csVars>>
    \/ DesktopCoordinator_on_state_change
          /\ UNCHANGED <<ycVars, apiVars, coVars, artVars, libVars, wkVars, mqVars, upVars, tgVars, awVars, pkVars, nfVars, mcVars, csVars>>
    \/ DesktopCoordinator_cleanup
          /\ UNCHANGED <<ycVars, apiVars, coVars, artVars, libVars, wkVars, mqVars, upVars, tgVars, awVars, pkVars, nfVars, mcVars, csVars>>
    \/ Test_read_properties
          /\ UNCHANGED <<ycVars, apiVars, coVars, artVars, libVars, wkVars, mqVars, upVars, tgVars, awVars, pkVars, nfVars, mcVars, csVars>>

SpecDesktop == Init /\ [][NextDesktop]_vars

\* C27: once the test has written "playing", "test123" and "Test Card" into
\* the client, _on_state_change has run and cleanup() has run, both signals
\* have been received and the properties read then are "playing", "test123",
\* "Test Card", with isPlaying, hasActiveContent and showNowPlaying true.
C27_TestReadsPlayingAfterCleanup ==
    dc_read.at = 3 =>
        /\ dc_received.playback /\ dc_received.card
        /\ dc_read.values.playbackStatus = "playing"
        /\ dc_read.values.activeCardId = "test123"
        /\ dc_read.values.currentCardTitle = "Test Card"
        /\ dc_read.values.isPlaying
        /\ dc_read.values.hasActiveContent
        /\ dc_read.values.showNowPlaying


(***************************************************************************)
(* SpecTarget: the three resolutions over every configured id and every    *)
(* list of known devices                                                   *)
(***************************************************************************)
ConfiguredIds == {None, "", Dev, DevB}

KnownDevices ==
    {d \in UNION {[1..n -> [id : {Dev, DevB}, online : BOOLEAN]] : n \in 0..2} :
        \A i, j \in DOMAIN d : d[i].id = d[j].id => i = j}

NextTarget ==
    \/ (\E c \in ConfiguredIds, m \in {None, "manager"}, d \in KnownDevices :
            YotoAPIClient_resolve_device_id(c, m, d))
          /\ UNCHANGED <<ycVars, apiVars, coVars, artVars, libVars, wkVars, mqVars, upVars, dcVars, awVars, pkVars, nfVars, mcVars, csVars>>
    \/ (\E c \in ConfiguredIds, m \in {None, "manager"}, d \in KnownDevices :
            YotoCoordinator_resolve_device_id(c, m, d))
          /\ UNCHANGED <<ycVars, apiVars, coVars, artVars, libVars, wkVars, mqVars, upVars, dcVars, awVars, pkVars, nfVars, mcVars, csVars>>
    \/ (\E d \in KnownDevices : YotoClient_select_device(d))
          /\ UNCHANGED <<ycVars, apiVars, coVars, artVars, libVars, wkVars, mqVars, upVars, dcVars, awVars, pkVars, nfVars, mcVars, csVars>>

SpecTarget == Init /\ [][NextTarget]_vars

\* C28: the target is the configured device id when one is configured,
\* otherwise the first known device, and there is no target only when
\* neither exists.
C28_ConfiguredThenFirstKnown ==
    tg_client # None =>
        tg_target = IF Truthy(tg_configured) THEN tg_configured
                    ELSE IF tg_known # <<>> THEN tg_known[1].id
                    ELSE None


(***************************************************************************)
(* SpecFrame: the commands of YotoAPIClient and YotoCoordinator among the  *)
(* operations that apply a player status                                   *)
(***************************************************************************)
NextFrame ==
    \/ (\E o \in AuthOutcomes, p \in PlayersUpdate : YotoAPIClient_authenticate(o, p))
          /\ UNCHANGED <<ycVars, coVars, artVars, libVars, wkVars, mqVars, upVars, dcVars, tgVars, awVars, pkVars, nfVars, mcVars, csVars>>
    \/ (\E p \in PlayersUpdate : YotoAPIClient_on_event(p, -1))
          /\ UNCHANGED <<ycVars, coVars, artVars, libVars, wkVars, mqVars, upVars, dcVars, tgVars, awVars, pkVars, nfVars, mcVars, csVars>>
    \/ (\E p \in PlayersUpdate : YotoAPIClient_refresh_state(p))
          /\ UNCHANGED <<ycVars, coVars, artVars, libVars, wkVars, mqVars, upVars, dcVars, tgVars, awVars, pkVars, nfVars, mcVars, csVars>>
    \/ Manager_disconnected
          /\ UNCHANGED <<ycVars, coVars, artVars, libVars, wkVars, mqVars, upVars, dcVars, tgVars, awVars, pkVars, nfVars, mcVars, csVars>>
    \/ (\E verb \in ApiVerbs, conn \in ConnOutcomes, pub \in {"ok", "raises"} :
            YotoAPIClient_command(verb, conn, pub))
          /\ UNCHANGED <<ycVars, coVars, artVars, libVars, wkVars, mqVars, upVars, dcVars, tgVars, awVars, pkVars, nfVars, mcVars, csVars>>
    \/ (\E o \in AuthOutcomes, p \in PlayersUpdate : YotoCoordinator_start(o, p))
          /\ UNCHANGED <<ycVars, apiVars, artVars, libVars, wkVars, mqVars, upVars, dcVars, tgVars, awVars, pkVars, nfVars, mcVars, csVars>>
    \/ (\E p \in PlayersUpdate : YotoCoordinator_on_event(p))
          /\ UNCHANGED <<ycVars, apiVars, artVars, libVars, wkVars, mqVars, upVars, dcVars, tgVars, awVars, pkVars, nfVars, mcVars, csVars>>
    \/ (\E p \in PlayersUpdate : YotoCoordinator_update_loop("ok", p))
          /\ UNCHANGED <<ycVars, apiVars, artVars, libVars, wkVars, mqVars, upVars, dcVars, tgVars, awVars, pkVars, nfVars, mcVars, csVars>>
    \/ (\E verb \in CoVerbs, pub \in {"ok", "raises"} : YotoCoordinator_command(verb, pub))
          /\ UNCHANGED <<ycVars, apiVars, artVars, libVars, wkVars, mqVars, upVars, dcVars, tgVars, awVars, pkVars, nfVars, mcVars, csVars>>

SpecFrame == Init /\ [][NextFrame]_vars

\* the operations that apply a player status: the event callback, a status
\* poll, and the first status read when the client signs in
AppliesStatus == {"authenticate", "start", "on_event", "refresh_state", "update_loop"}

\* C29: a step of play, pause, resume or stop leaves the mirrored state as it
\* was, and the mirrored state changes only in a step that applies a player
\* status (event callback, status poll, first status at sign-in).
C29_CommandsLeaveMirror ==
    [][/\ api_op'.name \in ApiVerbs => api_state' = api_state
       /\ co_op' \in CoVerbs => co_state' = co_state
       /\ api_state' # api_state => api_op'.name \in AppliesStatus
       /\ co_state' # co_state => co_op' \in AppliesStatus]_vars

C29_Witness ==
    /\ api_op.name = "pause"
    /\ api_published # <<>>
    /\ api_state.playback_status = "playing"
    /\ co_op = "pause"
    /\ co_published # <<>>
    /\ co_state.playback_status = "playing"


(***************************************************************************)
(* SpecArtFile: threads that get or download the artwork of the same cards *)
(***************************************************************************)
NextArtFile ==
    \/ (\E t \in ArtThreads, c \in Cards, u \in {None, "https://art"} :
            ArtThread_check(t, c, u))
          /\ UNCHANGED <<ycVars, apiVars, coVars, artVars, libVars, wkVars, mqVars, upVars, dcVars, tgVars, pkVars, nfVars, mcVars, csVars>>
    \/ (\E t \in ArtThreads, r \in {"error", "image/png", "image/jpeg"} :
            ArtThread_open(t, r))
          /\ UNCHANGED <<ycVars, apiVars, coVars, artVars, libVars, wkVars, mqVars, upVars, dcVars, tgVars, pkVars, nfVars, mcVars, csVars>>
    \/ (\E t \in ArtThreads, o \in {"ok", "raises"} : ArtThread_write(t, o))
          /\ UNCHANGED <<ycVars, apiVars, coVars, artVars, libVars, wkVars, mqVars, upVars, dcVars, tgVars, pkVars, nfVars, mcVars, csVars>>

SpecArtFile == Init /\ [][NextArtFile]_vars

\* C31: a file the existing-file check hands to a caller is completely
\* written.
C31_CachedFileComplete == aw_seen.complete

\* C32: with a chapter list of length n >= 1 and any current key, next_track
\* and previous_track publish nothing, or publish a play command for the key
\* of the chapter right after, respectively right before, the current
\* position; they never index outside the list.
C32_AdjacentChapterOrNothing ==
    [][api_op'.name \in {"next_track", "previous_track"} =>
          /\ api_raised' # "IndexError"
          /\ api_published' # <<>> =>
                LET chapters == mgr_library'[CardA].chapters
                    current == ParseKey(CurrentKey(mgr_players[Dev]))
                    target == IF api_op'.name = "next_track"
                              THEN current + 1 ELSE current - 1
                IN /\ target \in DOMAIN chapters
                   /\ api_published'[1].call.chapterKey = chapters[target]
    ]_vars


(***************************************************************************)
(* SpecParseKey: both parsers over every key of up to MaxKeyLen characters *)
(***************************************************************************)
MaxKeyLen == 3

KeyChars == {"0", "1", "7", "a", "sup2"}

Keys == UNION {[1..n -> KeyChars] : n \in 0..MaxKeyLen}

NextParseKey ==
    \/ (\E key \in Keys : YotoAPIClient_parse_key(key))
          /\ UNCHANGED <<ycVars, apiVars, coVars, artVars, libVars, wkVars, mqVars, upVars, dcVars, tgVars, awVars, nfVars, mcVars, csVars>>
    \/ (\E key \in Keys : YotoCoordinator_parse_key(key))
          /\ UNCHANGED <<ycVars, apiVars, coVars, artVars, libVars, wkVars, mqVars, upVars, dcVars, tgVars, awVars, nfVars, mcVars, csVars>>

SpecParseKey == Init /\ [][NextParseKey]_vars

IsDecimal(ch) == \E i \in 1..10 : DecimalDigits[i] = ch

DecimalsOf(key) == SelectSeq(key, IsDecimal)

\* C33 as stated: 1 for a missing key and for a key without a decimal
\* digit, otherwise the integer formed by the key's decimal digits in order.
C33_DigitsOrOne ==
    pk_result = IF DecimalsOf(pk_key) = <<>> THEN 1
                ELSE IntOf(DecimalsOf(pk_key))

\* C33 amended: 1 for a missing key, for a key without a decimal digit and
\* for a key holding a digit character that int() rejects; otherwise the
\* integer formed by the key's decimal digits in order.
C33_DigitsOrOneUnlessRejected ==
    pk_result = IF \/ DecimalsOf(pk_key) = <<>>
                   \/ \E i \in 1..Len(pk_key) : pk_key[i] = "sup2"
                THEN 1
                ELSE IntOf(DecimalsOf(pk_key))

C33_Witness ==
    /\ pk_client = "YotoCoordinator"
    /\ pk_key = <<"1", "a", "7">>
    /\ pk_result = 17

\* C34: when authenticate() has returned False the client holds no manager,
\* and the command that follows reaches neither the broker nor the cloud:
\* no connect attempt, no session, nothing published.
C34_FailedAuthIsInert ==
    [][/\ (api_op'.name = "authenticate" /\ ~mgr_connected') => api_manager' = None
       /\ (/\ api_op.name = "authenticate" /\ ~mgr_connected
           /\ api_op'.name \in ApiVerbs)
          => /\ api_published' = <<>>
             /\ api_connects' = api_connects
             /\ ~mgr_connected'
    ]_vars


(***************************************************************************)
(* SpecListeners: adds, removes and notifications in every order, with     *)
(* callbacks that remove a callback when invoked                           *)
(***************************************************************************)
RemovesWhenInvoked == [Listeners -> Listeners \cup {None}]

NextListeners ==
    \/ (\E cb \in Listeners : YotoAPIClient_add_state_callback_again(cb))
          /\ UNCHANGED <<ycVars, apiVars, coVars, artVars, libVars, wkVars, mqVars, upVars, dcVars, tgVars, awVars, pkVars, mcVars, csVars>>
    \/ (\E cb \in Listeners : YotoAPIClient_remove_state_callback(cb))
          /\ UNCHANGED <<ycVars, apiVars, coVars, artVars, libVars, wkVars, mqVars, upVars, dcVars, tgVars, awVars, pkVars, mcVars, csVars>>
    \/ (\E removes \in RemovesWhenInvoked : YotoAPIClient_notify_state_change(removes))
          /\ UNCHANGED <<ycVars, apiVars, coVars, artVars, libVars, wkVars, mqVars, upVars, dcVars, tgVars, awVars, pkVars, mcVars, csVars>>
    \/ (\E cb \in Listeners : YotoCoordinator_add_listener_again(cb))
          /\ UNCHANGED <<ycVars, apiVars, coVars, artVars, libVars, wkVars, mqVars, upVars, dcVars, tgVars, awVars, pkVars, mcVars, csVars>>
    \/ (\E cb \in Listeners : YotoCoordinator_remove_listener(cb))
          /\ UNCHANGED <<ycVars, apiVars, coVars, artVars, libVars, wkVars, mqVars, upVars, dcVars, tgVars, awVars, pkVars, mcVars, csVars>>
    \/ (\E removes \in RemovesWhenInvoked : YotoCoordinator_notify_listeners(removes))
          /\ UNCHANGED <<ycVars, apiVars, coVars, artVars, libVars, wkVars, mqVars, upVars, dcVars, tgVars, awVars, pkVars, mcVars, csVars>>

SpecListeners == Init /\ [][NextListeners]_vars

Times(cb, invoked) == Cardinality({i \in 1..Len(invoked) : invoked[i] = cb})

\* C35: in a notification over callbacks registered once each, every
\* callback that no invoked callback removed is invoked exactly once.
C35_OthersStillInvoked ==
    (/\ nf_last.client # None
     /\ \A c \in Listeners : Times(c, nf_last.registered) <= 1)
    => \A c \in Listeners :
          (Has(nf_last.registered, c) /\ c \notin nf_last.dropped)
          => Times(c, nf_last.invoked) = 1

\* C36: a callback whose last add/remove call before a notification was a
\* remove is not invoked by that notification, and a callback registered
\* once and not removed is invoked exactly once.
C36_RemovedNeverInvoked ==
    nf_last.client # None
    => \A c \in Listeners :
          /\ c \in nf_last.removed => Times(c, nf_last.invoked) = 0
          /\ (/\ Times(c, nf_last.registered) = 1
              /\ nf_last.dropped = {})
             => Times(c, nf_last.invoked) = 1

\* C37: a running background loop (token refresh, status poll, player
\* update) is ended by stop only: after an iteration that fails its task
\* is still running, so the next iteration follows.
C37_LoopsOutliveFailures ==
    [][/\ (yc_refresh_task = "running" /\ yc_op' # "stop")
          => yc_refresh_task' = "running"
       /\ (yc_state_task = "running" /\ yc_op' # "stop")
          => yc_state_task' = "running"
       /\ (co_task = "running" /\ co_op' # "stop")
          => co_task' = "running"]_vars


(***************************************************************************)
(* SpecFlag: the MQTT connection flag under connects, callbacks with every *)
(* reason code, disconnects and commands                                   *)
(***************************************************************************)
CommandNames == {YcCommand(v) : v \in YcVerbs}

NextFlag ==
    \/ YotoClient_connect_mqtt /\ UNCHANGED <<ycVars, apiVars, coVars, artVars, libVars, wkVars, mqVars, upVars, dcVars, tgVars, awVars, pkVars, nfVars, csVars>>
    \/ (\E rc \in ReasonCodes, devices \in DeviceOrders :
            YotoClient_on_connect(rc, devices))
          /\ UNCHANGED <<ycVars, apiVars, coVars, artVars, libVars, wkVars, mqVars, upVars, dcVars, tgVars, awVars, pkVars, nfVars, csVars>>
    \/ (\E rc \in ReasonCodes : YotoClient_on_disconnect(rc))
          /\ UNCHANGED <<ycVars, apiVars, coVars, artVars, libVars, wkVars, mqVars, upVars, dcVars, tgVars, awVars, pkVars, nfVars, csVars>>
    \/ YotoClient_disconnect_mqtt /\ UNCHANGED <<ycVars, apiVars, coVars, artVars, libVars, wkVars, mqVars, upVars, dcVars, tgVars, awVars, pkVars, nfVars, csVars>>
    \/ (\E d \in DeviceIds, c \in CommandNames, is_connected \in BOOLEAN,
          devices \in DeviceOrders :
            YotoClient_publish_device_command(d, c, is_connected, devices))
          /\ UNCHANGED <<ycVars, apiVars, coVars, artVars, libVars, wkVars, mqVars, upVars, dcVars, tgVars, awVars, pkVars, nfVars, csVars>>
    \/ (\E pub \in {"ok", "failed"} : YotoClient_publish(pub))
          /\ UNCHANGED <<ycVars, apiVars, coVars, artVars, libVars, wkVars, mqVars, upVars, dcVars, tgVars, awVars, pkVars, nfVars, csVars>>

SpecFlag == Init /\ [][NextFlag]_vars

\* C38: is_mqtt_connected is true only with a client object and a connect
\* callback with reason code 0 as the last connection event; a connect
\* callback with another reason code leaves the flag false and subscribes and
\* publishes nothing; a command issued after a disconnect callback or
\* _disconnect_mqtt, before the next connect callback with reason code 0,
\* returns False and publishes nothing.
C38_FlagFollowsCallbacks ==
    [][/\ IsMqttConnected(TRUE)'
          => (mc_client' # None /\ mc_last' = "connect" /\ mc_rc' = 0)
       /\ (mc_op' = "on_connect" /\ mc_rc' # 0)
          => (~mc_flag' /\ mc_ops' = <<>>)
       /\ (/\ mc_op' = "publish_device_command"
           /\ ~(mc_last = "connect" /\ mc_rc = 0))
          => (mc_result' = "False" /\ mc_ops' = <<>> /\ mc_pending' = NoPending)
    ]_vars

C38_Witness ==
    /\ mc_op = "publish_device_command"
    /\ mc_client # None
    /\ mc_last = "disconnect"
    /\ mc_result = "False"

NextSelection ==
    \/ (\E c \in SelectableIds \cup {None}, notify \in BOOLEAN :
            CardSelection_select_card(c, notify))
          /\ UNCHANGED <<ycVars, apiVars, coVars, artVars, libVars, wkVars, mqVars, upVars, dcVars, tgVars, awVars, pkVars, nfVars, mcVars>>
    \/ (\E c \in SelectableIds, notify \in BOOLEAN :
            CardSelection_toggle_card(c, notify))
          /\ UNCHANGED <<ycVars, apiVars, coVars, artVars, libVars, wkVars, mqVars, upVars, dcVars, tgVars, awVars, pkVars, nfVars, mcVars>>
    \/ (\E notify \in BOOLEAN : CardSelection_clear_selection(notify))
          /\ UNCHANGED <<ycVars, apiVars, coVars, artVars, libVars, wkVars, mqVars, upVars, dcVars, tgVars, awVars, pkVars, nfVars, mcVars>>
    \/ (\E enabled \in BOOLEAN, clear_current \in BOOLEAN :
            CardSelection_set_multi_select_mode(enabled, clear_current))
          /\ UNCHANGED <<ycVars, apiVars, coVars, artVars, libVars, wkVars, mqVars, upVars, dcVars, tgVars, awVars, pkVars, nfVars, mcVars>>

SpecSelection == Init /\ [][NextSelection]_vars

\* C40: the primary selected id is None exactly when the selected set is
\* empty and is a member of the set otherwise, and in single-select mode the
\* set holds at most one id.
C40_PrimaryInSelection ==
    /\ (cs_selected_card_id = None) <=> (cs_selected_cards = {})
    /\ cs_selected_card_id # None => cs_selected_card_id \in cs_selected_cards
    /\ ~cs_multi_select => Cardinality(cs_selected_cards) <= 1

\* the primary id was toggled off while two other ids stayed selected
C40_Witness ==
    /\ cs_op = "toggle_card"
    /\ cs_multi_select
    /\ cs_event.selection_type = "multi_remove"
    /\ cs_event.selected_card_id = cs_event.previous_card_id
    /\ Cardinality(cs_selected_cards) = 2

====
